---- MODULE Spec2Model ----
(***************************************************************************)
(* Routing, session recovery and retry core of agentic-ai-labs.            *)
(*                                                                         *)
(*  - MCPClient (src/src/agent_framework/tool_agent.py and                 *)
(*    src/src/foundry_agent/tool_agent.py): initialize() and call_tool()   *)
(*    with its retry loop, for both variants.                              *)
(*  - router_node and _initialize_agents                                   *)
(*    (src/src/agent_framework/main_agent_workflow.py).                    *)
(*  - ToolAgent.initialize, ToolAgent.run and _parse_tool_call             *)
(*    (src/src/agent_framework/tool_agent.py; the parser of                *)
(*    src/src/foundry_agent/tool_agent.py is the same text).               *)
(*  - tool_node, research_node, general_node, orchestrator_node and        *)
(*    MainAgentWorkflow.run (main_agent_workflow.py), and MainAgent.run    *)
(*    (src/src/foundry_agent/main_agent.py).                               *)
(*                                                                         *)
(* Python strings are modelled by what the code does with them: a string   *)
(* literal stands for the tuple of its characters (Chars), and lower(),    *)
(* strip(), split() and the `in` substring test are computed on those      *)
(* tuples.  A non-ASCII character is written by its code point, "U+B0A0".  *)
(***************************************************************************)
EXTENDS Integers, Sequences, FiniteSets, TLC

VARIABLES
    \* ---- MCPClient object --------------------------------------------
    variant,                \* which source variant the client is
    session_id,             \* self.session_id, 0 for None
    available_tools,        \* self.available_tools
    \* ---- one call_tool invocation ------------------------------------
    pc,                     \* position of the call_tool coroutine
    max_retries,            \* the max_retries argument
    attempt,                \* loop variable of `for attempt in range(max_retries)`
    last_error,             \* local last_error
    session_reinitialized,  \* local session_reinitialized (agent_framework)
    outcome,                \* how the invocation ended
    calls,                  \* tools/call requests sent by this invocation
    inits,                  \* initialize() calls made by this invocation
    answers,                \* the answers its tools/call requests got
    window,                 \* the requests sent from the previous tools/call on
    \* ---- module globals of main_agent_workflow -------------------------
    agent_client, router_agent, general_agent,
    tool_agent_instance, research_agent_instance,
    \* ---- one router_node run -----------------------------------------
    rpc,                    \* position of the router_node coroutine
    msg,                    \* msg.text of the UserMessage being routed
    route,                  \* target_id of ctx.send_message, "none" if not sent
    routerOutput,           \* text of ctx.yield_output, <<>> if none
    genCalls,               \* calls made to router_agent.run in this run
    genResult,              \* what router_agent.run produced
    \* ---- the ToolAgent object and one ToolAgent.run ----------------------
    agent,                  \* self.agent is set (initialize() has succeeded)
    mcp_client,             \* self.mcp_client is set (built with an endpoint)
    apc,                    \* position of the ToolAgent.run coroutine
    response_text,          \* local response_text, "None" before the answer
    tool_call,              \* what _parse_tool_call returned
    run_result,             \* how ToolAgent.run ended
    llm_calls,              \* generator calls made in this run
    tool_calls,             \* the requests this run passed to call_tool, in order
    handler_inits,          \* results of the initialize() calls the handler made
    user_query,             \* the user_query argument of run (foundry_agent)
    \* ---- the ResearchAgent object and one ResearchAgent.run --------------
    search_client,          \* self.search_client is set
    spc,                    \* position of the ResearchAgent.run coroutine
    query,                  \* the message argument of run, the query of the search
    search_results,         \* local search_results
    enhanced_message,       \* the characters of the prompt given to the generator
    generated,              \* local response_text, the generator's text
    research_run,           \* how ResearchAgent.run ended
    search_outcome,         \* what the search of this run did: found, raised, none
    \* ---- the executors behind the router and the top-level run ----------
    research_agent,         \* research_agent_instance.agent is set
    tool_br,                \* position of tool_node or of run_tool()
    research_br,            \* position of research_node or of run_research()
    general_br,             \* position of general_node
    orch,                   \* position of orchestrator_node
    tool_result,            \* what run_tool() returned, <<>> before
    research_result,        \* what run_research() returned, <<>> before
    exc,                    \* str(e) of the exception each handler raised
    finished,               \* the branches of the gather, in completion order
    escaped,                \* an executor let an exception out
    outputs,                \* the texts the executors yielded, in order
    hpc,                    \* position of the top-level run()
    final_result,           \* what run() returned, or the exception it raised
    \* ---- concurrent requests of the /chat endpoint -----------------------
    lanes,                  \* position of each request's executor, per handler
    initialize_runs,        \* executions of initialize() begun, per handler
    closed                  \* MCPClient.close() has completed on the client

clientVars == <<variant, session_id, available_tools>>
callVars   == <<pc, max_retries, attempt, last_error, session_reinitialized, outcome,
                calls, inits, answers, window>>
lifecycleVars == <<lanes, initialize_runs, closed>>
agentVars  == <<agent_client, router_agent, general_agent,
                tool_agent_instance, research_agent_instance, lifecycleVars>>
routerVars == <<rpc, msg, route, routerOutput, genCalls, genResult>>
researchVars == <<search_client, spc, query, search_results, enhanced_message,
                  generated, research_run, search_outcome>>
handlerVars == <<agent, mcp_client, apc, response_text, tool_call, run_result,
                 llm_calls, tool_calls, handler_inits, user_query, researchVars>>
flowVars   == <<research_agent, tool_br, research_br, general_br, orch, tool_result,
                research_result, exc, finished, escaped, outputs, hpc, final_result>>
vars       == <<clientVars, callVars, agentVars, routerVars, handlerVars, flowVars>>

-----------------------------------------------------------------------------
(* Bounds of the model. *)

\* largest max_retries argument explored
MaxRetries == 3
\* number of distinct session ids the server hands out
MaxSid == 2
\* requests the /chat endpoint is handling at the same time
MaxRequests == 2
\* executions of initialize() counted per handler instance
MaxInitializeRuns == 2

-----------------------------------------------------------------------------
(* Python text. *)

Chars(s) ==
    CASE s = "session" ->
           <<"s", "e", "s", "s", "i", "o", "n">>
      [] s = "Session expired" ->
           <<"S", "e", "s", "s", "i", "o", "n", " ", "e", "x", "p", "i", "r", "e", "d">>
      [] s = "Server error" ->
           <<"S", "e", "r", "v", "e", "r", " ", "e", "r", "r", "o", "r">>
      [] s = "Invalid params" ->
           <<"I", "n", "v", "a", "l", "i", "d", " ", "p", "a", "r", "a", "m", "s">>
      [] s = "Unknown error" ->
           <<"U", "n", "k", "n", "o", "w", "n", " ", "e", "r", "r", "o", "r">>
      [] s = "Session error: " ->
           <<"S", "e", "s", "s", "i", "o", "n", " ", "e", "r", "r", "o", "r", ":", " ">>
      [] s = "MCP session error: " ->
           <<"M", "C", "P", " ", "s", "e", "s", "s", "i", "o", "n", " ", "e", "r", "r",
             "o", "r", ":", " ">>
      [] s = "Client error for url http://localhost:8000/mcp" ->
           <<"C", "l", "i", "e", "n", "t", " ", "e", "r", "r", "o", "r", " ", "f", "o",
             "r", " ", "u", "r", "l", " ", "h", "t", "t", "p", ":", "/", "/", "l", "o",
             "c", "a", "l", "h", "o", "s", "t", ":", "8", "0", "0", "0", "/", "m", "c", "p">>
      [] s = "Expecting value: line 1 column 1 (char 0)" ->
           <<"E", "x", "p", "e", "c", "t", "i", "n", "g", " ", "v", "a", "l", "u", "e",
             ":", " ", "l", "i", "n", "e", " ", "1", " ", "c", "o", "l", "u", "m", "n",
             " ", "1", " ", "(", "c", "h", "a", "r", " ", "0", ")">>
      [] s = "5" ->
           <<"5">>
      [] s = "4" ->
           <<"4">>
      [] s = "3" ->
           <<"3">>
      [] s = "2" ->
           <<"2">>
      [] s = "1" ->
           <<"1">>
      [] s = "0" ->
           <<"0">>
      [] s = " attempts: " ->
           <<" ", "a", "t", "t", "e", "m", "p", "t", "s", ":", " ">>
      [] s = "MCP call failed after " ->
           <<"M", "C", "P", " ", "c", "a", "l", "l", " ", "f", "a", "i", "l", "e", "d",
             " ", "a", "f", "t", "e", "r", " ">>
      [] s = "" ->
           <<>>
      [] s = "weather" ->
           <<"w", "e", "a", "t", "h", "e", "r">>
      [] s = "temperature" ->
           <<"t", "e", "m", "p", "e", "r", "a", "t", "u", "r", "e">>
      [] s = "temp" ->
           <<"t", "e", "m", "p">>
      [] s = "forecast" ->
           <<"f", "o", "r", "e", "c", "a", "s", "t">>
      [] s = "climate" ->
           <<"c", "l", "i", "m", "a", "t", "e">>
      [] s = "rain" ->
           <<"r", "a", "i", "n">>
      [] s = "snow" ->
           <<"s", "n", "o", "w">>
      [] s = "sun" ->
           <<"s", "u", "n">>
      [] s = "cloud" ->
           <<"c", "l", "o", "u", "d">>
      [] s = "wind" ->
           <<"w", "i", "n", "d">>
      [] s = "humidity" ->
           <<"h", "u", "m", "i", "d", "i", "t", "y">>
      [] s = "storm" ->
           <<"s", "t", "o", "r", "m">>
      [] s = "thunder" ->
           <<"t", "h", "u", "n", "d", "e", "r">>
      [] s = "fog" ->
           <<"f", "o", "g">>
      [] s = "degree" ->
           <<"d", "e", "g", "r", "e", "e">>
      [] s = "celsius" ->
           <<"c", "e", "l", "s", "i", "u", "s">>
      [] s = "fahrenheit" ->
           <<"f", "a", "h", "r", "e", "n", "h", "e", "i", "t">>
      [] s = "U+B0A0U+C528" ->
           <<"U+B0A0", "U+C528">>
      [] s = "U+AE30U+C628" ->
           <<"U+AE30", "U+C628">>
      [] s = "U+C628U+B3C4" ->
           <<"U+C628", "U+B3C4">>
      [] s = "U+C77CU+AE30U+C608U+BCF4" ->
           <<"U+C77C", "U+AE30", "U+C608", "U+BCF4">>
      [] s = "mcp" ->
           <<"m", "c", "p">>
      [] s = "protocol" ->
           <<"p", "r", "o", "t", "o", "c", "o", "l">>
      [] s = "rag" ->
           <<"r", "a", "g">>
      [] s = "retrieval" ->
           <<"r", "e", "t", "r", "i", "e", "v", "a", "l">>
      [] s = "embedding" ->
           <<"e", "m", "b", "e", "d", "d", "i", "n", "g">>
      [] s = "vector" ->
           <<"v", "e", "c", "t", "o", "r">>
      [] s = "agent" ->
           <<"a", "g", "e", "n", "t">>
      [] s = "orchestration" ->
           <<"o", "r", "c", "h", "e", "s", "t", "r", "a", "t", "i", "o", "n">>
      [] s = "handoff" ->
           <<"h", "a", "n", "d", "o", "f", "f">>
      [] s = "delegation" ->
           <<"d", "e", "l", "e", "g", "a", "t", "i", "o", "n">>
      [] s = "azure" ->
           <<"a", "z", "u", "r", "e">>
      [] s = "foundry" ->
           <<"f", "o", "u", "n", "d", "r", "y">>
      [] s = "search" ->
           <<"s", "e", "a", "r", "c", "h">>
      [] s = "index" ->
           <<"i", "n", "d", "e", "x">>
      [] s = "openai" ->
           <<"o", "p", "e", "n", "a", "i">>
      [] s = "llm" ->
           <<"l", "l", "m">>
      [] s = "architecture" ->
           <<"a", "r", "c", "h", "i", "t", "e", "c", "t", "u", "r", "e">>
      [] s = "pattern" ->
           <<"p", "a", "t", "t", "e", "r", "n">>
      [] s = "deployment" ->
           <<"d", "e", "p", "l", "o", "y", "m", "e", "n", "t">>
      [] s = "container" ->
           <<"c", "o", "n", "t", "a", "i", "n", "e", "r">>
      [] s = "docker" ->
           <<"d", "o", "c", "k", "e", "r">>
      [] s = "thread" ->
           <<"t", "h", "r", "e", "a", "d">>
      [] s = "tool" ->
           <<"t", "o", "o", "l">>
      [] s = "function" ->
           <<"f", "u", "n", "c", "t", "i", "o", "n">>
      [] s = "instruction" ->
           <<"i", "n", "s", "t", "r", "u", "c", "t", "i", "o", "n">>
      [] s = "prompt" ->
           <<"p", "r", "o", "m", "p", "t">>
      [] s = "U+C5D0U+C774U+C804U+D2B8" ->
           <<"U+C5D0", "U+C774", "U+C804", "U+D2B8">>
      [] s = "U+BA40U+D2F0" ->
           <<"U+BA40", "U+D2F0">>
      [] s = "U+AC80U+C0C9" ->
           <<"U+AC80", "U+C0C9">>
      [] s = "U+BC30U+D3EC" ->
           <<"U+BC30", "U+D3EC">>
      [] s = "U+C544U+D0A4U+D14DU+CC98" ->
           <<"U+C544", "U+D0A4", "U+D14D", "U+CC98">>
      [] s = "U+C9C0U+C2DD" ->
           <<"U+C9C0", "U+C2DD">>
      [] s = " and " ->
           <<" ", "a", "n", "d", " ">>
      [] s = " also " ->
           <<" ", "a", "l", "s", "o", " ">>
      [] s = " plus " ->
           <<" ", "p", "l", "u", "s", " ">>
      [] s = " additionally " ->
           <<" ", "a", "d", "d", "i", "t", "i", "o", "n", "a", "l", "l", "y", " ">>
      [] s = " moreover " ->
           <<" ", "m", "o", "r", "e", "o", "v", "e", "r", " ">>
      [] s = "orchestrator" ->
           <<"o", "r", "c", "h", "e", "s", "t", "r", "a", "t", "o", "r">>
      [] s = "research" ->
           <<"r", "e", "s", "e", "a", "r", "c", "h">>
      [] s = "general" ->
           <<"g", "e", "n", "e", "r", "a", "l">>
      [] s = "What's the weather in Seoul and what is RAG?" ->
           <<"W", "h", "a", "t", "'", "s", " ", "t", "h", "e", " ", "w", "e", "a", "t",
             "h", "e", "r", " ", "i", "n", " ", "S", "e", "o", "u", "l", " ", "a", "n",
             "d", " ", "w", "h", "a", "t", " ", "i", "s", " ", "R", "A", "G", "?">>
      [] s = "Tokyo weather AND explain MCP" ->
           <<"T", "o", "k", "y", "o", " ", "w", "e", "a", "t", "h", "e", "r", " ", "A",
             "N", "D", " ", "e", "x", "p", "l", "a", "i", "n", " ", "M", "C", "P">>
      [] s = "Paris forecast plus the Azure deployment pattern and the agent handoff protocol for a container in docker" ->
           <<"P", "a", "r", "i", "s", " ", "f", "o", "r", "e", "c", "a", "s", "t", " ",
             "p", "l", "u", "s", " ", "t", "h", "e", " ", "A", "z", "u", "r", "e", " ",
             "d", "e", "p", "l", "o", "y", "m", "e", "n", "t", " ", "p", "a", "t", "t",
             "e", "r", "n", " ", "a", "n", "d", " ", "t", "h", "e", " ", "a", "g", "e",
             "n", "t", " ", "h", "a", "n", "d", "o", "f", "f", " ", "p", "r", "o", "t",
             "o", "c", "o", "l", " ", "f", "o", "r", " ", "a", " ", "c", "o", "n", "t",
             "a", "i", "n", "e", "r", " ", "i", "n", " ", "d", "o", "c", "k", "e", "r">>
      [] s = "Seoul weather?" ->
           <<"S", "e", "o", "u", "l", " ", "w", "e", "a", "t", "h", "e", "r", "?">>
      [] s = "Weather and humidity in Busan" ->
           <<"W", "e", "a", "t", "h", "e", "r", " ", "a", "n", "d", " ", "h", "u", "m",
             "i", "d", "i", "t", "y", " ", "i", "n", " ", "B", "u", "s", "a", "n">>
      [] s = "training schedule" ->
           <<"t", "r", "a", "i", "n", "i", "n", "g", " ", "s", "c", "h", "e", "d", "u",
             "l", "e">>
      [] s = "U+C11CU+C6B8 U+B0A0U+C528" ->
           <<"U+C11C", "U+C6B8", " ", "U+B0A0", "U+C528">>
      [] s = "WEATHER  in\tTokyo\nplease" ->
           <<"W", "E", "A", "T", "H", "E", "R", " ", " ", "i", "n", "\t", "T", "o", "k",
             "y", "o", "\n", "p", "l", "e", "a", "s", "e">>
      [] s = "Tell me if it will rain in Seoul tomorrow because I want to go" ->
           <<"T", "e", "l", "l", " ", "m", "e", " ", "i", "f", " ", "i", "t", " ", "w",
             "i", "l", "l", " ", "r", "a", "i", "n", " ", "i", "n", " ", "S", "e", "o",
             "u", "l", " ", "t", "o", "m", "o", "r", "r", "o", "w", " ", "b", "e", "c",
             "a", "u", "s", "e", " ", "I", " ", "w", "a", "n", "t", " ", "t", "o", " ",
             "g", "o">>
      [] s = "Tell me if it will rain in Seoul tomorrow because I want to go hiking" ->
           <<"T", "e", "l", "l", " ", "m", "e", " ", "i", "f", " ", "i", "t", " ", "w",
             "i", "l", "l", " ", "r", "a", "i", "n", " ", "i", "n", " ", "S", "e", "o",
             "u", "l", " ", "t", "o", "m", "o", "r", "r", "o", "w", " ", "b", "e", "c",
             "a", "u", "s", "e", " ", "I", " ", "w", "a", "n", "t", " ", "t", "o", " ",
             "g", "o", " ", "h", "i", "k", "i", "n", "g">>
      [] s = "Tell me if it will rain in Seoul tomorrow because I want to go hiking early" ->
           <<"T", "e", "l", "l", " ", "m", "e", " ", "i", "f", " ", "i", "t", " ", "w",
             "i", "l", "l", " ", "r", "a", "i", "n", " ", "i", "n", " ", "S", "e", "o",
             "u", "l", " ", "t", "o", "m", "o", "r", "r", "o", "w", " ", "b", "e", "c",
             "a", "u", "s", "e", " ", "I", " ", "w", "a", "n", "t", " ", "t", "o", " ",
             "g", "o", " ", "h", "i", "k", "i", "n", "g", " ", "e", "a", "r", "l", "y">>
      [] s = "What is RAG?" ->
           <<"W", "h", "a", "t", " ", "i", "s", " ", "R", "A", "G", "?">>
      [] s = "Hello" ->
           <<"H", "e", "l", "l", "o">>
      [] s = "Explain the weather tool" ->
           <<"E", "x", "p", "l", "a", "i", "n", " ", "t", "h", "e", " ", "w", "e", "a",
             "t", "h", "e", "r", " ", "t", "o", "o", "l">>
      [] s = "RAG weather and" ->
           <<"R", "A", "G", " ", "w", "e", "a", "t", "h", "e", "r", " ", "a", "n", "d">>
      [] s = "Tool" ->
           <<"T", "o", "o", "l">>
      [] s = " RESEARCH\n" ->
           <<" ", "R", "E", "S", "E", "A", "R", "C", "H", "\n">>
      [] s = "research tool" ->
           <<"r", "e", "s", "e", "a", "r", "c", "h", " ", "t", "o", "o", "l">>
      [] s = "tool orchestrator" ->
           <<"t", "o", "o", "l", " ", "o", "r", "c", "h", "e", "s", "t", "r", "a", "t",
             "o", "r">>
      [] s = "Route to: General" ->
           <<"R", "o", "u", "t", "e", " ", "t", "o", ":", " ", "G", "e", "n", "e", "r",
             "a", "l">>
      [] s = "banana" ->
           <<"b", "a", "n", "a", "n", "a">>
      [] s = "None" ->
           <<"N", "o", "n", "e">>
      [] s = "{\"tool\":\"x\",\"arguments\":{\"a\":1}} trailing text" ->
           <<"{", "\"", "t", "o", "o", "l", "\"", ":", "\"", "x", "\"", ",", "\"", "a",
             "r", "g", "u", "m", "e", "n", "t", "s", "\"", ":", "{", "\"", "a", "\"", ":",
             "1", "}", "}", " ", "t", "r", "a", "i", "l", "i", "n", "g", " ", "t", "e",
             "x", "t">>
      [] s = "{\"tool\":\"x\",\"arguments\":{\"a\":1}}" ->
           <<"{", "\"", "t", "o", "o", "l", "\"", ":", "\"", "x", "\"", ",", "\"", "a",
             "r", "g", "u", "m", "e", "n", "t", "s", "\"", ":", "{", "\"", "a", "\"", ":",
             "1", "}", "}">>
      [] s = "{\"tool\": \"get_weather\", \"arguments\": {\"location\": \"Seoul\"}}" ->
           <<"{", "\"", "t", "o", "o", "l", "\"", ":", " ", "\"", "g", "e", "t", "_", "w",
             "e", "a", "t", "h", "e", "r", "\"", ",", " ", "\"", "a", "r", "g", "u", "m",
             "e", "n", "t", "s", "\"", ":", " ", "{", "\"", "l", "o", "c", "a", "t", "i",
             "o", "n", "\"", ":", " ", "\"", "S", "e", "o", "u", "l", "\"", "}", "}">>
      [] s = "Sure: {\"tool\":\"x\",\"arguments\":1} ok" ->
           <<"S", "u", "r", "e", ":", " ", "{", "\"", "t", "o", "o", "l", "\"", ":", "\"",
             "x", "\"", ",", "\"", "a", "r", "g", "u", "m", "e", "n", "t", "s", "\"", ":",
             "1", "}", " ", "o", "k">>
      [] s = "{\"tool\":\"\",\"arguments\":{}}" ->
           <<"{", "\"", "t", "o", "o", "l", "\"", ":", "\"", "\"", ",", "\"", "a", "r",
             "g", "u", "m", "e", "n", "t", "s", "\"", ":", "{", "}", "}">>
      [] s = "It is sunny in Seoul." ->
           <<"I", "t", " ", "i", "s", " ", "s", "u", "n", "n", "y", " ", "i", "n", " ",
             "S", "e", "o", "u", "l", ".">>
      [] s = "{\"tool\":\"x\"" ->
           <<"{", "\"", "t", "o", "o", "l", "\"", ":", "\"", "x", "\"">>
      [] s = "{\"tool\":\"x\",}" ->
           <<"{", "\"", "t", "o", "o", "l", "\"", ":", "\"", "x", "\"", ",", "}">>
      [] s = "{\"a\":1}" ->
           <<"{", "\"", "a", "\"", ":", "1", "}">>
      [] s = " {\"tool\":\"x\",\"arguments\":{}}\n" ->
           <<" ", "{", "\"", "t", "o", "o", "l", "\"", ":", "\"", "x", "\"", ",", "\"",
             "a", "r", "g", "u", "m", "e", "n", "t", "s", "\"", ":", "{", "}", "}", "\n">>
      [] s = "{\"tool\":null,\"arguments\":{}}" ->
           <<"{", "\"", "t", "o", "o", "l", "\"", ":", "n", "u", "l", "l", ",", "\"", "a",
             "r", "g", "u", "m", "e", "n", "t", "s", "\"", ":", "{", "}", "}">>
      [] s = "}{" ->
           <<"}", "{">>
      [] s = "{\"arguments\":1,\"tool\":\"y\"} z" ->
           <<"{", "\"", "a", "r", "g", "u", "m", "e", "n", "t", "s", "\"", ":", "1", ",",
             "\"", "t", "o", "o", "l", "\"", ":", "\"", "y", "\"", "}", " ", "z">>
      [] s = "No response" ->
           <<"N", "o", " ", "r", "e", "s", "p", "o", "n", "s", "e">>
      [] s = "get_weather" ->
           <<"g", "e", "t", "_", "w", "e", "a", "t", "h", "e", "r">>
      [] s = "arguments" ->
           <<"a", "r", "g", "u", "m", "e", "n", "t", "s">>
      [] s = "U+1F527 [Tool Agent]\n" ->
           <<"U+1F527", " ", "[", "T", "o", "o", "l", " ", "A", "g", "e", "n", "t", "]",
             "\n">>
      [] s = "U+26A0U+FE0F Tool Agent: MCP endpoint not configured" ->
           <<"U+26A0", "U+FE0F", " ", "T", "o", "o", "l", " ", "A", "g", "e", "n", "t",
             ":", " ", "M", "C", "P", " ", "e", "n", "d", "p", "o", "i", "n", "t", " ",
             "n", "o", "t", " ", "c", "o", "n", "f", "i", "g", "u", "r", "e", "d">>
      [] s = "U+26A0U+FE0F Research Agent: Search not configured" ->
           <<"U+26A0", "U+FE0F", " ", "R", "e", "s", "e", "a", "r", "c", "h", " ", "A",
             "g", "e", "n", "t", ":", " ", "S", "e", "a", "r", "c", "h", " ", "n", "o",
             "t", " ", "c", "o", "n", "f", "i", "g", "u", "r", "e", "d">>
      [] s = "U+26A0U+FE0F Tool Agent error: " ->
           <<"U+26A0", "U+FE0F", " ", "T", "o", "o", "l", " ", "A", "g", "e", "n", "t",
             " ", "e", "r", "r", "o", "r", ":", " ">>
      [] s = "U+26A0U+FE0F Research Agent error: " ->
           <<"U+26A0", "U+FE0F", " ", "R", "e", "s", "e", "a", "r", "c", "h", " ", "A",
             "g", "e", "n", "t", " ", "e", "r", "r", "o", "r", ":", " ">>
      [] s = "Error in tool execution: " ->
           <<"E", "r", "r", "o", "r", " ", "i", "n", " ", "t", "o", "o", "l", " ", "e",
             "x", "e", "c", "u", "t", "i", "o", "n", ":", " ">>
      [] s = "Error in research: " ->
           <<"E", "r", "r", "o", "r", " ", "i", "n", " ", "r", "e", "s", "e", "a", "r",
             "c", "h", ":", " ">>
      [] s = "Error in general conversation: " ->
           <<"E", "r", "r", "o", "r", " ", "i", "n", " ", "g", "e", "n", "e", "r", "a",
             "l", " ", "c", "o", "n", "v", "e", "r", "s", "a", "t", "i", "o", "n", ":", " ">>
      [] s = "Error in orchestration: " ->
           <<"E", "r", "r", "o", "r", " ", "i", "n", " ", "o", "r", "c", "h", "e", "s",
             "t", "r", "a", "t", "i", "o", "n", ":", " ">>
      [] s = "Error in routing: " ->
           <<"E", "r", "r", "o", "r", " ", "i", "n", " ", "r", "o", "u", "t", "i", "n",
             "g", ":", " ">>
      [] s = "Error: " ->
           <<"E", "r", "r", "o", "r", ":", " ">>
      [] s = "U+1F4AC " ->
           <<"U+1F4AC", " ">>
      [] s = "\n" ->
           <<"\n">>
      [] s = "\n\n" ->
           <<"\n", "\n">>
      [] s = "No response generated" ->
           <<"N", "o", " ", "r", "e", "s", "p", "o", "n", "s", "e", " ", "g", "e", "n",
             "e", "r", "a", "t", "e", "d">>
      [] s = "NoneType" ->
           <<"N", "o", "n", "e", "T", "y", "p", "e">>
      [] s = "generator" ->
           <<"g", "e", "n", "e", "r", "a", "t", "o", "r">>
      [] s = "agent initialization failed" ->
           <<"a", "g", "e", "n", "t", " ", "i", "n", "i", "t", "i", "a", "l", "i", "z",
             "a", "t", "i", "o", "n", " ", "f", "a", "i", "l", "e", "d">>
      [] s = "MCP client initialization failed" ->
           <<"M", "C", "P", " ", "c", "l", "i", "e", "n", "t", " ", "i", "n", "i", "t",
             "i", "a", "l", "i", "z", "a", "t", "i", "o", "n", " ", "f", "a", "i", "l",
             "e", "d">>
      [] s = "Agent not initialized" ->
           <<"A", "g", "e", "n", "t", " ", "n", "o", "t", " ", "i", "n", "i", "t", "i",
             "a", "l", "i", "z", "e", "d">>
      [] s = "Service unavailable" ->
           <<"S", "e", "r", "v", "i", "c", "e", " ", "u", "n", "a", "v", "a", "i", "l",
             "a", "b", "l", "e">>
      [] s = "'NoneType' object has no attribute 'run'" ->
           <<"'", "N", "o", "n", "e", "T", "y", "p", "e", "'", " ", "o", "b", "j", "e",
             "c", "t", " ", "h", "a", "s", " ", "n", "o", " ", "a", "t", "t", "r", "i",
             "b", "u", "t", "e", " ", "'", "r", "u", "n", "'">>
      [] s = "Seoul: 12C, clear" ->
           <<"S", "e", "o", "u", "l", ":", " ", "1", "2", "C", ",", " ", "c", "l", "e",
             "a", "r">>
      [] s = "RAG pairs retrieval with generation. [Source 1]" ->
           <<"R", "A", "G", " ", "p", "a", "i", "r", "s", " ", "r", "e", "t", "r", "i",
             "e", "v", "a", "l", " ", "w", "i", "t", "h", " ", "g", "e", "n", "e", "r",
             "a", "t", "i", "o", "n", ".", " ", "[", "S", "o", "u", "r", "c", "e", " ",
             "1", "]">>
      [] s = "Hello! How can I help?" ->
           <<"H", "e", "l", "l", "o", "!", " ", "H", "o", "w", " ", "c", "a", "n", " ",
             "I", " ", "h", "e", "l", "p", "?">>
      [] s = "U+B0A0U+C528 U+C815U+BCF4: " ->
           <<"U+B0A0", "U+C528", " ", "U+C815", "U+BCF4", ":", " ">>
      [] s = "Error in " ->
           <<"E", "r", "r", "o", "r", " ", "i", "n", " ">>
      [] s = ": " ->
           <<":", " ">>
      [] s = "tool execution" ->
           <<"t", "o", "o", "l", " ", "e", "x", "e", "c", "u", "t", "i", "o", "n">>
      [] s = "general conversation" ->
           <<"g", "e", "n", "e", "r", "a", "l", " ", "c", "o", "n", "v", "e", "r", "s",
             "a", "t", "i", "o", "n">>
      [] s = "U+1F4DA **Sources Used:**\n\n" ->
           <<"U+1F4DA", " ", "*", "*", "S", "o", "u", "r", "c", "e", "s", " ", "U", "s",
             "e", "d", ":", "*", "*", "\n", "\n">>
      [] s = "**[" ->
           <<"*", "*", "[">>
      [] s = "]** " ->
           <<"]", "*", "*", " ">>
      [] s = "   U+2022 Category: " ->
           <<" ", " ", " ", "U+2022", " ", "C", "a", "t", "e", "g", "o", "r", "y", ":", " ">>
      [] s = "   U+2022 Document ID: U+0060" ->
           <<" ", " ", " ", "U+2022", " ", "D", "o", "c", "u", "m", "e", "n", "t", " ",
             "I", "D", ":", " ", "U+0060">>
      [] s = "U+0060\n" ->
           <<"U+0060", "\n">>
      [] s = "   U+2022 Relevance: " ->
           <<" ", " ", " ", "U+2022", " ", "R", "e", "l", "e", "v", "a", "n", "c", "e",
             ":", " ">>
      [] s = "U+1F4DA Knowledge Base Search Results:\n\n" ->
           <<"U+1F4DA", " ", "K", "n", "o", "w", "l", "e", "d", "g", "e", " ", "B", "a",
             "s", "e", " ", "S", "e", "a", "r", "c", "h", " ", "R", "e", "s", "u", "l",
             "t", "s", ":", "\n", "\n">>
      [] s = "[Source " ->
           <<"[", "S", "o", "u", "r", "c", "e", " ">>
      [] s = "] " ->
           <<"]", " ">>
      [] s = "Category: " ->
           <<"C", "a", "t", "e", "g", "o", "r", "y", ":", " ">>
      [] s = "Document ID: " ->
           <<"D", "o", "c", "u", "m", "e", "n", "t", " ", "I", "D", ":", " ">>
      [] s = "Content: " ->
           <<"C", "o", "n", "t", "e", "n", "t", ":", " ">>
      [] s = "...\n" ->
           <<".", ".", ".", "\n">>
      [] s = "(Relevance Score: " ->
           <<"(", "R", "e", "l", "e", "v", "a", "n", "c", "e", " ", "S", "c", "o", "r",
             "e", ":", " ">>
      [] s = ")\n\n" ->
           <<")", "\n", "\n">>
      [] s = "\n\nUser Question: " ->
           <<"\n", "\n", "U", "s", "e", "r", " ", "Q", "u", "e", "s", "t", "i", "o", "n",
             ":", " ">>
      [] s = "\n\nPlease answer based on the search results above. IMPORTANT: You MUST cite sources using [Source N] format where N is the source number. Place citations immediately after claims." ->
           <<"\n", "\n", "P", "l", "e", "a", "s", "e", " ", "a", "n", "s", "w", "e", "r",
             " ", "b", "a", "s", "e", "d", " ", "o", "n", " ", "t", "h", "e", " ", "s",
             "e", "a", "r", "c", "h", " ", "r", "e", "s", "u", "l", "t", "s", " ", "a",
             "b", "o", "v", "e", ".", " ", "I", "M", "P", "O", "R", "T", "A", "N", "T",
             ":", " ", "Y", "o", "u", " ", "M", "U", "S", "T", " ", "c", "i", "t", "e",
             " ", "s", "o", "u", "r", "c", "e", "s", " ", "u", "s", "i", "n", "g", " ",
             "[", "S", "o", "u", "r", "c", "e", " ", "N", "]", " ", "f", "o", "r", "m",
             "a", "t", " ", "w", "h", "e", "r", "e", " ", "N", " ", "i", "s", " ", "t",
             "h", "e", " ", "s", "o", "u", "r", "c", "e", " ", "n", "u", "m", "b", "e",
             "r", ".", " ", "P", "l", "a", "c", "e", " ", "c", "i", "t", "a", "t", "i",
             "o", "n", "s", " ", "i", "m", "m", "e", "d", "i", "a", "t", "e", "l", "y",
             " ", "a", "f", "t", "e", "r", " ", "c", "l", "a", "i", "m", "s", ".">>
      [] s = "No relevant information found in knowledge base.\n\nUser Question: " ->
           <<"N", "o", " ", "r", "e", "l", "e", "v", "a", "n", "t", " ", "i", "n", "f",
             "o", "r", "m", "a", "t", "i", "o", "n", " ", "f", "o", "u", "n", "d", " ",
             "i", "n", " ", "k", "n", "o", "w", "l", "e", "d", "g", "e", " ", "b", "a",
             "s", "e", ".", "\n", "\n", "U", "s", "e", "r", " ", "Q", "u", "e", "s", "t",
             "i", "o", "n", ":", " ">>
      [] s = "\n\nPlease answer using your general knowledge and indicate that the information is not from the knowledge base." ->
           <<"\n", "\n", "P", "l", "e", "a", "s", "e", " ", "a", "n", "s", "w", "e", "r",
             " ", "u", "s", "i", "n", "g", " ", "y", "o", "u", "r", " ", "g", "e", "n",
             "e", "r", "a", "l", " ", "k", "n", "o", "w", "l", "e", "d", "g", "e", " ",
             "a", "n", "d", " ", "i", "n", "d", "i", "c", "a", "t", "e", " ", "t", "h",
             "a", "t", " ", "t", "h", "e", " ", "i", "n", "f", "o", "r", "m", "a", "t",
             "i", "o", "n", " ", "i", "s", " ", "n", "o", "t", " ", "f", "r", "o", "m",
             " ", "t", "h", "e", " ", "k", "n", "o", "w", "l", "e", "d", "g", "e", " ",
             "b", "a", "s", "e", ".">>
      [] s = "Azure AI Search" ->
           <<"A", "z", "u", "r", "e", " ", "A", "I", " ", "S", "e", "a", "r", "c", "h">>
      [] s = "MCP Overview" ->
           <<"M", "C", "P", " ", "O", "v", "e", "r", "v", "i", "e", "w">>
      [] s = "Untitled" ->
           <<"U", "n", "t", "i", "t", "l", "e", "d">>
      [] s = "doc-1" ->
           <<"d", "o", "c", "-", "1">>
      [] s = "doc-2" ->
           <<"d", "o", "c", "-", "2">>
      [] s = "unknown" ->
           <<"u", "n", "k", "n", "o", "w", "n">>
      [] s = "Azure AI Search indexes documents." ->
           <<"A", "z", "u", "r", "e", " ", "A", "I", " ", "S", "e", "a", "r", "c", "h",
             " ", "i", "n", "d", "e", "x", "e", "s", " ", "d", "o", "c", "u", "m", "e",
             "n", "t", "s", ".">>
      [] s = "MCP connects agents to tools." ->
           <<"M", "C", "P", " ", "c", "o", "n", "n", "e", "c", "t", "s", " ", "a", "g",
             "e", "n", "t", "s", " ", "t", "o", " ", "t", "o", "o", "l", "s", ".">>
      [] s = "I do not know." ->
           <<"I", " ", "d", "o", " ", "n", "o", "t", " ", "k", "n", "o", "w", ".">>
      [] s = "general knowledge" ->
           <<"g", "e", "n", "e", "r", "a", "l", " ", "k", "n", "o", "w", "l", "e", "d",
             "g", "e">>
      [] s = "No relevant information found in knowledge base" ->
           <<"N", "o", " ", "r", "e", "l", "e", "v", "a", "n", "t", " ", "i", "n", "f",
             "o", "r", "m", "a", "t", "i", "o", "n", " ", "f", "o", "u", "n", "d", " ",
             "i", "n", " ", "k", "n", "o", "w", "l", "e", "d", "g", "e", " ", "b", "a",
             "s", "e">>
      [] s = "not from the knowledge base" ->
           <<"n", "o", "t", " ", "f", "r", "o", "m", " ", "t", "h", "e", " ", "k", "n",
             "o", "w", "l", "e", "d", "g", "e", " ", "b", "a", "s", "e">>
      [] s = "No relevant information found in the knowledge base." ->
           <<"N", "o", " ", "r", "e", "l", "e", "v", "a", "n", "t", " ", "i", "n", "f",
             "o", "r", "m", "a", "t", "i", "o", "n", " ", "f", "o", "u", "n", "d", " ",
             "i", "n", " ", "t", "h", "e", " ", "k", "n", "o", "w", "l", "e", "d", "g",
             "e", " ", "b", "a", "s", "e", ".">>
      [] s = "Tell me the weather in Seoul then explain what the MCP protocol is for an agent" ->
           <<"T", "e", "l", "l", " ", "m", "e", " ", "t", "h", "e", " ", "w", "e", "a",
             "t", "h", "e", "r", " ", "i", "n", " ", "S", "e", "o", "u", "l", " ", "t",
             "h", "e", "n", " ", "e", "x", "p", "l", "a", "i", "n", " ", "w", "h", "a",
             "t", " ", "t", "h", "e", " ", "M", "C", "P", " ", "p", "r", "o", "t", "o",
             "c", "o", "l", " ", "i", "s", " ", "f", "o", "r", " ", "a", "n", " ", "a",
             "g", "e", "n", "t">>

\* str.lower() on one character
LowerChar(c) ==
    CASE c = "A" -> "a" [] c = "B" -> "b" [] c = "C" -> "c" [] c = "D" -> "d"
      [] c = "E" -> "e" [] c = "F" -> "f" [] c = "G" -> "g" [] c = "H" -> "h"
      [] c = "I" -> "i" [] c = "J" -> "j" [] c = "K" -> "k" [] c = "L" -> "l"
      [] c = "M" -> "m" [] c = "N" -> "n" [] c = "O" -> "o" [] c = "P" -> "p"
      [] c = "Q" -> "q" [] c = "R" -> "r" [] c = "S" -> "s" [] c = "T" -> "t"
      [] c = "U" -> "u" [] c = "V" -> "v" [] c = "W" -> "w" [] c = "X" -> "x"
      [] c = "Y" -> "y" [] c = "Z" -> "z" [] OTHER -> c

\* str.lower()
Lower(t) == [i \in 1..Len(t) |-> LowerChar(t[i])]

\* `needle in hay`
Contains(hay, needle) ==
    \E i \in 0..(Len(hay) - Len(needle)) :
        \A j \in 1..Len(needle) : hay[i + j] = needle[j]

\* the characters str.strip() and str.split() treat as whitespace
IsSpace(c) == c \in {" ", "\t", "\n", "\r"}

\* str.strip()
Strip(t) ==
    LET keep == {i \in 1..Len(t) : ~IsSpace(t[i])}
    IN  IF keep = {} THEN <<>>
        ELSE LET lo == CHOOSE i \in keep : \A k \in keep : i <= k
                 hi == CHOOSE i \in keep : \A k \in keep : i >= k
             IN  SubSeq(t, lo, hi)

\* len(str.split()): the number of maximal runs of non-whitespace
WordCount(t) ==
    Cardinality({i \in 1..Len(t) :
                    ~IsSpace(t[i]) /\ (i = 1 \/ IsSpace(t[i - 1]))})

\* the characters of a text given as a tuple of parts (an f-string)
RECURSIVE Join(_)
Join(parts) ==
    IF parts = <<>> THEN <<>> ELSE Chars(Head(parts)) \o Join(Tail(parts))

-----------------------------------------------------------------------------
(* MCPClient: the tool-invocation client, in its two source variants. *)

Variants == {"agent_framework", "foundry_agent"}

\* an exception object: its class, the HTTP status it carries (0 if none) and
\* the parts of its str()
Exc(type, status, text) == [type |-> type, status |-> status, text |-> text]

\* last_error = None
NoError == Exc("None", 0, <<"None">>)

\* str(e).lower()
ErrorMsgLower(e) == Lower(Join(e.text))

\* what the tool server can answer to MCPClient.initialize()
InitScenarios == {"post_fails", "notify_fails", "list_fails", "no_tools", "ok"}

\* the tools the server of src/src/mcp/server.py exposes
ServerTools == <<"get_weather", "calculate", "get_current_time", "generate_random_number">>

\* session ids the server can put in the mcp-session-id header of its answer
\* to an initialize request made by a client holding sid (0: no header)
SessionHeaders(sid) == {0} \cup ((1..MaxSid) \ {sid})

\* One request sent to the transport: its JSON-RPC method, the mcp-session-id
\* header it carried (0: none) and the answer.
Request(method, sid, resp) == [method |-> method, sid |-> sid, resp |-> resp]

\* MCPClient.initialize(): the requests it sends, the value it returns and
\* the fields it leaves behind, when the server answers by scenario scn and
\* puts session id h in the header of the initialize answer.
InitializeRun(scn, h, sid, tools) ==
    [ok              |-> scn = "ok",
     session_id      |-> IF scn # "post_fails" /\ h # 0 THEN h ELSE sid,
     available_tools |-> IF scn = "ok" THEN ServerTools ELSE tools,
     requests        |->
        <<Request("initialize", 0, IF scn = "post_fails" THEN "fails" ELSE "ok")>>
        \o (IF scn = "post_fails" THEN <<>>
            ELSE <<Request("notifications/initialized", h,
                           IF scn = "notify_fails" THEN "fails" ELSE "ok")>>)
        \o (IF scn \in {"post_fails", "notify_fails"} THEN <<>>
            ELSE <<Request("tools/list", h,
                           IF scn = "ok" THEN "ok"
                           ELSE IF scn = "no_tools" THEN "no_tools" ELSE "fails")>>)]

\* What the transport can answer to a tools/call request.
ToolCallResponses ==
    {"timeout", "connect", "http400", "http401", "http403", "http500",
     "session_message", "session_code", "other_error",
     "result", "no_data", "bad_json"}

\* raises: the httpx exception client.post raises, "" if it returns;
\* status: the HTTP status; data: what the `data: ` line of the SSE body
\* holds; message, code: the fields of its error object.
Answer(raises, status, data, message, code) ==
    [raises |-> raises, status |-> status, data |-> data,
     message |-> message, code |-> code]

Response(r) ==
    CASE r = "timeout"         -> Answer("TimeoutException", 0, "none", "", 0)
      [] r = "connect"         -> Answer("ConnectError", 0, "none", "", 0)
      [] r = "http400"         -> Answer("", 400, "none", "", 0)
      [] r = "http401"         -> Answer("", 401, "none", "", 0)
      [] r = "http403"         -> Answer("", 403, "none", "", 0)
      [] r = "http500"         -> Answer("", 500, "none", "", 0)
      [] r = "session_message" -> Answer("", 200, "error", "Session expired", 0)
      [] r = "session_code"    -> Answer("", 200, "error", "Server error", -32000)
      [] r = "other_error"     -> Answer("", 200, "error", "Invalid params", -32602)
      [] r = "result"          -> Answer("", 200, "result", "", 0)
      [] r = "no_data"         -> Answer("", 200, "none", "", 0)
      [] r = "bad_json"        -> Answer("", 200, "garbage", "", 0)

\* what one pass through the body of the retry loop comes to
Return(v)   == [do |-> "return",   value |-> v,      exc |-> NoError]
Thrown(e)   == [do |-> "thrown",   value |-> "None", exc |-> e]
Raise(e)    == [do |-> "raise",    value |-> "None", exc |-> e]
Continue(e) == [do |-> "continue", value |-> "None", exc |-> e]

\* client.post(...) followed by response.raise_for_status().  The str() of
\* an httpx.HTTPStatusError names the status and the request URL; the URL is
\* that of the default endpoint, which does not contain "session".
PostAndCheck(a) ==
    IF a.raises # "" THEN Thrown(Exc(a.raises, 0, <<"">>))
    ELSE IF a.status >= 400
         THEN Thrown(Exc("HTTPStatusError", a.status,
                         <<"Client error for url http://localhost:8000/mcp">>))
         ELSE Return("response")

\* `'session' in error_msg.lower()` on the message of an error object
MentionsSession(message) == Contains(Lower(Chars(message)), Chars("session"))

\* agent_framework: the scan of the SSE body of a 200 answer
ParseAnswerAF(a, att, mr) ==
    CASE a.data = "garbage" ->
            Thrown(Exc("JSONDecodeError", 0, <<"Expecting value: line 1 column 1 (char 0)">>))
      [] a.data = "error" ->
            IF MentionsSession(a.message) \/ a.code \in {-32000, -32001}
            THEN IF att < mr - 1
                 THEN Thrown(Exc("Exception", 0, <<"Session error: ", a.message>>))
                 ELSE Thrown(Exc("Exception", 0, <<"MCP session error: ", a.message>>))
            ELSE Return("None")
      [] a.data = "result" -> Return("result")
      [] OTHER -> Return("None")

\* foundry_agent: the scan of the SSE body of a 200 answer
ParseAnswerFoundry(a, att, mr) ==
    CASE a.data = "garbage" ->
            Thrown(Exc("JSONDecodeError", 0, <<"Expecting value: line 1 column 1 (char 0)">>))
      [] a.data = "error" ->
            IF MentionsSession(a.message) /\ att < mr - 1
            THEN Thrown(Exc("Exception", 0, <<"Session error: ", a.message>>))
            ELSE Return("None")
      [] a.data = "result" -> Return("result")
      [] OTHER -> Return("None")

\* the exception classes caught by the first except clause
TransportErrors == {"TimeoutException", "ConnectError", "ReadTimeout"}

\* agent_framework: the three except clauses of call_tool
HandleAF(e, att, mr) ==
    IF e.type \in TransportErrors THEN Continue(e)
    ELSE IF e.type = "HTTPStatusError"
         THEN IF e.status \in {400, 401, 403} THEN Continue(e) ELSE Raise(e)
         ELSE IF Contains(ErrorMsgLower(e), Chars("session")) /\ att < mr - 1
              THEN Continue(e)
              ELSE Raise(e)

\* foundry_agent: the two except clauses of call_tool
HandleFoundry(e, att, mr) ==
    IF e.type \in TransportErrors THEN Continue(e)
    ELSE IF Contains(ErrorMsgLower(e), Chars("session")) /\ att < mr - 1
         THEN Continue(e)
         ELSE Raise(e)

\* one pass through the try block and its except clauses, given the answer
AttemptAF(a, att, mr) ==
    LET posted == PostAndCheck(a)
        tried  == IF posted.do = "thrown" THEN posted ELSE ParseAnswerAF(a, att, mr)
    IN  IF tried.do = "thrown" THEN HandleAF(tried.exc, att, mr) ELSE tried

AttemptFoundry(a, att, mr) ==
    LET posted == PostAndCheck(a)
        tried  == IF posted.do = "thrown" THEN posted ELSE ParseAnswerFoundry(a, att, mr)
    IN  IF tried.do = "thrown" THEN HandleFoundry(tried.exc, att, mr) ELSE tried

\* the guard of the session reinitialization at the head of the loop body
ShouldReinitializeAF(att, reinitialized) == att > 0 /\ ~reinitialized
ShouldReinitializeFoundry(att, reinitialized) == att > 0

ShouldReinitialize(v, att, reinitialized) ==
    IF v = "agent_framework" THEN ShouldReinitializeAF(att, reinitialized)
    ELSE ShouldReinitializeFoundry(att, reinitialized)

\* a loop that runs one iteration too many
InRange_Inclusive(att, mr) == att <= mr

\* `for attempt in range(max_retries)`: is there an iteration for att?
InRange(att, mr) == att < mr

\* the exception raised below the loop
ExhaustedError(mr, last) ==
    Exc("Exception", 0,
        <<"MCP call failed after ", ToString(mr), " attempts: ">> \o last.text)

NoOutcome == [kind |-> "none", value |-> "None", exc |-> NoError]

\* the position call_tool is at when the loop reaches iteration att
LoopHead(att, mr, reinitialized, last) ==
    IF InRange(att, mr)
    THEN [pc |-> IF ShouldReinitialize(variant, att, reinitialized)
                 THEN "reinit" ELSE "post",
          outcome |-> NoOutcome]
    ELSE [pc |-> "raised",
          outcome |-> [kind |-> "raised", value |-> "None",
                       exc |-> ExhaustedError(mr, last)]]

-----------------------------------------------------------------------------
(* Actions of the client. *)

\* the part of the request history w that starts at its last tools/call
RECURSIVE FromLastCall(_)
FromLastCall(w) ==
    IF w = <<>> \/ \A i \in 1..Len(w) : w[i].method # "tools/call" THEN w
    ELSE IF \A i \in 2..Len(w) : w[i].method # "tools/call" THEN w
    ELSE FromLastCall(Tail(w))

\* MCPClient(server_url) has just been constructed; call_tool is not running.
InitClient ==
    /\ variant \in Variants
    /\ session_id = 0
    /\ available_tools = <<>>
    /\ pc = "idle"
    /\ max_retries = 0
    /\ attempt = 0
    /\ last_error = NoError
    /\ session_reinitialized = FALSE
    /\ outcome = NoOutcome
    /\ calls = 0
    /\ inits = 0
    /\ answers = {}
    /\ window = <<>>

\* await mcp_client.initialize(), as ToolAgent.initialize(), create() and
\* run() call it outside call_tool
ClientInitialize ==
    /\ pc = "idle"
    /\ mcp_client
    /\ \E scn \in InitScenarios, h \in SessionHeaders(session_id) :
         LET run == InitializeRun(scn, h, session_id, available_tools)
         IN  /\ scn = "post_fails" => h = 0
             /\ session_id' = run.session_id
             /\ available_tools' = run.available_tools
    /\ UNCHANGED <<variant, callVars, agentVars, routerVars, handlerVars, flowVars>>

\* call_tool(tool_name, arguments, max_retries) is entered.  Both handlers
\* call it only after an initialize() of the client has succeeded.
CallToolStart ==
    /\ pc = "idle"
    /\ mcp_client
    /\ available_tools # <<>>
    /\ \E mr \in 0..MaxRetries :
         LET head == LoopHead(0, mr, FALSE, NoError)
         IN  /\ max_retries' = mr
             /\ pc' = head.pc
             /\ outcome' = head.outcome
    /\ attempt' = 0
    /\ last_error' = NoError
    /\ session_reinitialized' = FALSE
    /\ calls' = 0
    /\ inits' = 0
    /\ answers' = {}
    /\ window' = <<>>
    /\ UNCHANGED <<clientVars, agentVars, routerVars, handlerVars, flowVars>>

\* reinit_success = await self.initialize() at the head of a retry
Reinitialize ==
    /\ pc = "reinit"
    /\ \E scn \in InitScenarios, h \in SessionHeaders(session_id) :
         LET run == InitializeRun(scn, h, session_id, available_tools)
         IN  /\ scn = "post_fails" => h = 0
             /\ session_id' = run.session_id
             /\ available_tools' = run.available_tools
             /\ window' = FromLastCall(window) \o run.requests
             /\ session_reinitialized' =
                    IF variant = "agent_framework" /\ run.ok
                    THEN TRUE ELSE session_reinitialized
    /\ inits' = inits + 1
    /\ pc' = "post"
    /\ UNCHANGED <<variant, max_retries, attempt, last_error, outcome, calls, answers>>
    /\ UNCHANGED <<agentVars, routerVars, handlerVars, flowVars>>

\* the tools/call request of one attempt, the scan of its answer and the
\* except clause that catches what they raise
ToolCallAttempt ==
    /\ pc = "post"
    /\ \E r \in ToolCallResponses :
         LET step == IF variant = "agent_framework"
                     THEN AttemptAF(Response(r), attempt, max_retries)
                     ELSE AttemptFoundry(Response(r), attempt, max_retries)
             head == LoopHead(attempt + 1, max_retries, session_reinitialized, step.exc)
         IN  /\ window' = Append(FromLastCall(window),
                                 Request("tools/call", session_id, r))
             /\ answers' = answers \cup {r}
             /\ CASE step.do = "return" ->
                       /\ pc' = "returned"
                       /\ outcome' = [kind |-> "returned", value |-> step.value,
                                      exc |-> NoError]
                       /\ UNCHANGED <<attempt, last_error>>
                  [] step.do = "raise" ->
                       /\ pc' = "raised"
                       /\ outcome' = [kind |-> "raised", value |-> "None",
                                      exc |-> step.exc]
                       /\ last_error' = step.exc
                       /\ UNCHANGED attempt
                  [] step.do = "continue" ->
                       /\ last_error' = step.exc
                       /\ attempt' = IF InRange(attempt + 1, max_retries)
                                      THEN attempt + 1 ELSE attempt
                       /\ pc' = head.pc
                       /\ outcome' = head.outcome
    /\ calls' = calls + 1
    /\ UNCHANGED <<clientVars, max_retries, session_reinitialized, inits>>
    /\ UNCHANGED <<agentVars, routerVars, handlerVars, flowVars>>

\* MCPClient.close(): foundry_agent clears the session id and the tools
\* list, agent_framework only logs
CloseRun(v, sid, tools) ==
    IF v = "foundry_agent"
    THEN [session_id |-> 0, available_tools |-> <<>>]
    ELSE [session_id |-> sid, available_tools |-> tools]

\* ToolAgent.cleanup() of agent_framework and ToolAgent.delete() of
\* foundry_agent, at shutdown: the agent is dropped, the client is closed
\* and the handler lets go of it
ToolAgentCleanup ==
    /\ pc = "idle"
    /\ mcp_client
    /\ LET run == CloseRun(variant, session_id, available_tools)
       IN  /\ session_id' = run.session_id
           /\ available_tools' = run.available_tools
    /\ agent' = FALSE
    /\ mcp_client' = FALSE
    /\ closed' = TRUE
    /\ UNCHANGED <<agent_client, router_agent, general_agent,
                   tool_agent_instance, research_agent_instance, lanes,
                   initialize_runs>>
    /\ UNCHANGED <<apc, response_text, tool_call, run_result, llm_calls, tool_calls,
                   handler_inits, user_query, researchVars>>
    /\ UNCHANGED <<variant, callVars, routerVars, flowVars>>

\* the caller takes the value or the exception; the coroutine is gone
CallToolEnd ==
    /\ pc \in {"returned", "raised"}
    /\ pc' = "idle"
    /\ max_retries' = 0
    /\ attempt' = 0
    /\ last_error' = NoError
    /\ session_reinitialized' = FALSE
    /\ outcome' = NoOutcome
    /\ calls' = 0
    /\ inits' = 0
    /\ answers' = {}
    /\ window' = <<>>
    /\ UNCHANGED <<clientVars, agentVars, routerVars, handlerVars, flowVars>>

-----------------------------------------------------------------------------
(* json.loads, on the character tuples.  A value is a record of one shape:  *)
(* a string carries its characters, a number its value, an object its      *)
(* members in source order.  The texts explored hold objects, strings      *)
(* without escapes, non-negative integers and null/true/false.             *)

JValue(type, str, num, members) ==
    [type |-> type, str |-> str, num |-> num, members |-> members]

JNull == JValue("null", <<>>, 0, <<>>)

\* what the decoder reports for one value: the value and the index behind it
Parsed(v, next) == [ok |-> TRUE, value |-> v, next |-> next]
\* json.JSONDecodeError
Failed == [ok |-> FALSE, value |-> JNull, next |-> 0]

\* `sub` is found in s at index p
OccursAt(s, sub, p) ==
    /\ p >= 1
    /\ p + Len(sub) - 1 <= Len(s)
    /\ \A j \in 1..Len(sub) : s[p + j - 1] = sub[j]

\* the first index from i on that holds no JSON whitespace
RECURSIVE SkipSpace(_, _)
SkipSpace(s, i) ==
    IF i <= Len(s) /\ IsSpace(s[i]) THEN SkipSpace(s, i + 1) ELSE i

\* the index of the quote that closes the string opened before i, 0 if the
\* text ends or a control character comes first
RECURSIVE ClosingQuote(_, _)
ClosingQuote(s, i) ==
    IF i > Len(s) \/ s[i] \in {"\n", "\t", "\r"} THEN 0
    ELSE IF s[i] = "\"" THEN i
    ELSE ClosingQuote(s, i + 1)

Digits == {"0", "1", "2", "3", "4", "5", "6", "7", "8", "9"}

DigitValue(c) ==
    CASE c = "0" -> 0 [] c = "1" -> 1 [] c = "2" -> 2 [] c = "3" -> 3
      [] c = "4" -> 4 [] c = "5" -> 5 [] c = "6" -> 6 [] c = "7" -> 7
      [] c = "8" -> 8 [] c = "9" -> 9

\* the index behind the integer that starts at i: a lone 0, or a run of
\* digits that does not start with 0
RECURSIVE DigitsEnd(_, _)
DigitsEnd(s, i) ==
    IF i <= Len(s) /\ s[i] \in Digits THEN DigitsEnd(s, i + 1) ELSE i

NumberEnd(s, i) == IF s[i] = "0" THEN i + 1 ELSE DigitsEnd(s, i)

RECURSIVE NumberValue(_)
NumberValue(t) ==
    IF t = <<>> THEN 0
    ELSE 10 * NumberValue(SubSeq(t, 1, Len(t) - 1)) + DigitValue(t[Len(t)])

\* the decoder on the value that starts at index i, and on the members of an
\* object from the key that starts at index i (acc: the members read so far)
RECURSIVE ParseValue(_, _), ParseMembers(_, _, _)
ParseValue(s, i) ==
    IF i > Len(s) THEN Failed
    ELSE IF s[i] = "{"
    THEN LET j == SkipSpace(s, i + 1)
         IN  IF j <= Len(s) /\ s[j] = "}"
             THEN Parsed(JValue("object", <<>>, 0, <<>>), j + 1)
             ELSE ParseMembers(s, j, <<>>)
    ELSE IF s[i] = "\""
    THEN LET q == ClosingQuote(s, i + 1)
         IN  IF q = 0 THEN Failed
             ELSE Parsed(JValue("string", SubSeq(s, i + 1, q - 1), 0, <<>>), q + 1)
    ELSE IF s[i] \in Digits
    THEN LET e == NumberEnd(s, i)
         IN  Parsed(JValue("number", <<>>, NumberValue(SubSeq(s, i, e - 1)), <<>>), e)
    ELSE IF OccursAt(s, <<"n", "u", "l", "l">>, i) THEN Parsed(JNull, i + 4)
    ELSE IF OccursAt(s, <<"t", "r", "u", "e">>, i)
    THEN Parsed(JValue("true", <<>>, 0, <<>>), i + 4)
    ELSE IF OccursAt(s, <<"f", "a", "l", "s", "e">>, i)
    THEN Parsed(JValue("false", <<>>, 0, <<>>), i + 5)
    ELSE Failed

ParseMembers(s, i, acc) ==
    IF i > Len(s) \/ s[i] # "\"" THEN Failed
    ELSE LET q == ClosingQuote(s, i + 1)
             c == SkipSpace(s, q + 1)
             v == ParseValue(s, SkipSpace(s, c + 1))
             e == SkipSpace(s, v.next)
             members == Append(acc, [key |-> SubSeq(s, i + 1, q - 1),
                                     value |-> v.value])
         IN  IF q = 0 THEN Failed
             ELSE IF c > Len(s) \/ s[c] # ":" THEN Failed
             ELSE IF ~v.ok THEN Failed
             ELSE IF e > Len(s) THEN Failed
             ELSE IF s[e] = "}" THEN Parsed(JValue("object", <<>>, 0, members), e + 1)
             ELSE IF s[e] = "," THEN ParseMembers(s, SkipSpace(s, e + 1), members)
             ELSE Failed

\* the value v read from the start of s, when only whitespace follows it
Whole(s, v) == IF v.ok /\ SkipSpace(s, v.next) > Len(s) THEN v ELSE Failed

\* json.loads(s): one value, whitespace around it and nothing else
JsonLoads(s) == Whole(s, ParseValue(s, SkipSpace(s, 1)))

\* `key in d` and d[key] on a decoded object; of two members with one key the
\* later one is kept
HasKey(d, key) ==
    d.type = "object" /\ \E i \in 1..Len(d.members) : d.members[i].key = key

Get(d, key) ==
    LET at == {i \in 1..Len(d.members) : d.members[i].key = key}
    IN  d.members[CHOOSE i \in at : \A k \in at : i >= k].value

-----------------------------------------------------------------------------
(* ToolAgent._parse_tool_call.  The two variants hold the same text. *)

\* the quoted key names the pattern looks for
ToolKey == <<"\"", "t", "o", "o", "l", "\"">>
ArgumentsKey == <<"\"", "a", "r", "g", "u", "m", "e", "n", "t", "s", "\"">>

\* The index at which \{[^}]*"tool"[^}]*"arguments"[^}]*\} ends when matched
\* from index i, 0 if it does not match there.  No part of the pattern can
\* consume a closing brace but its last one, so the match ends at the first
\* closing brace behind i.
MatchEnd(s, i) ==
    IF s[i] # "{" \/ \A x \in (i + 1)..Len(s) : s[x] # "}" THEN 0
    ELSE IF \E e \in (i + 1)..Len(s) :
               /\ s[e] = "}"
               /\ \A x \in (i + 1)..(e - 1) : s[x] # "}"
               /\ \E p \in (i + 1)..(e - 1), q \in (i + 1)..(e - 1) :
                     /\ OccursAt(s, ToolKey, p)
                     /\ q >= p + 6
                     /\ OccursAt(s, ArgumentsKey, q)
                     /\ q + 11 - 1 <= e - 1
    THEN CHOOSE e \in (i + 1)..Len(s) :
             s[e] = "}" /\ \A x \in (i + 1)..(e - 1) : s[x] # "}"
    ELSE 0

\* re.search(pattern, s, re.DOTALL).group(0): the leftmost match, <<>> for
\* no match
RegexSearch(s) ==
    IF \A i \in 1..Len(s) : MatchEnd(s, i) = 0 THEN <<>>
    ELSE CHOOSE m \in {SubSeq(s, i, MatchEnd(s, i)) :
                         i \in {x \in 1..Len(s) :
                                   /\ MatchEnd(s, x) # 0
                                   /\ \A y \in 1..(x - 1) : MatchEnd(s, y) = 0}} : TRUE

\* the brace-counting loop over json_str from index i with brace_count
\* count: end_pos, 0 if the count never comes back to zero
RECURSIVE EndPos(_, _, _)
EndPos(json_str, i, count) ==
    IF i > Len(json_str) THEN 0
    ELSE IF json_str[i] = "{" THEN EndPos(json_str, i + 1, count + 1)
    ELSE IF json_str[i] = "}"
    THEN IF count - 1 = 0 THEN i ELSE EndPos(json_str, i + 1, count - 1)
    ELSE EndPos(json_str, i + 1, count)

\* what _parse_tool_call hands back
NoRequest == [kind |-> "none", value |-> JNull]
ToolRequest(tc) == [kind |-> "request", value |-> tc]
ParseRaised == [kind |-> "raised", value |-> JNull]

\* `'tool' in tool_call and 'arguments' in tool_call`
HasBothKeys(tc) ==
    /\ HasKey(tc, <<"t", "o", "o", "l">>)
    /\ HasKey(tc, <<"a", "r", "g", "u", "m", "e", "n", "t", "s">>)

\* what the try block comes to: a value it returns, or that it raises
Returns(v) == [do |-> "return", value |-> v]
Raises(e) == [do |-> "raise", value |-> e]

\* json.loads raised, or returned a value: the test of the two keys, with
\* `otherwise` as what follows when it fails
Checked(loaded, otherwise) ==
    IF ~loaded.ok THEN Raises("JSONDecodeError")
    ELSE IF HasBothKeys(loaded.value) THEN Returns(ToolRequest(loaded.value))
    ELSE otherwise

\* json_str[:end_pos] if end_pos > 0, json_str itself if not
Balanced(json_str, end_pos) ==
    IF end_pos > 0 THEN SubSeq(json_str, 1, end_pos) ELSE json_str

\* the second try, on what re.search found
SecondTry(json_match) ==
    IF json_match = <<>> THEN Returns(NoRequest)
    ELSE Checked(JsonLoads(Balanced(json_match, EndPos(json_match, 1, 0))),
                 Returns(NoRequest))

\* the first try, on response.strip()
FirstTry(response, response_stripped) ==
    IF /\ response_stripped # <<>>
       /\ Head(response_stripped) = "{"
       /\ response_stripped[Len(response_stripped)] = "}"
    THEN Checked(JsonLoads(response_stripped), SecondTry(RegexSearch(response)))
    ELSE SecondTry(RegexSearch(response))

\* the try block of _parse_tool_call
ParseTry(response) == FirstTry(response, Strip(response))

\* the clause left to re-raise what the try block raised
ParseExcept_Reraises(e) == ParseRaised

\* `except Exception as e: return None`
ParseExcept(e) == NoRequest

\* _parse_tool_call(response)
Caught(body) == IF body.do = "raise" THEN ParseExcept(body.value) ELSE body.value

ParseToolCall(response) == Caught(ParseTry(response))

-----------------------------------------------------------------------------
(* ToolAgent of agent_framework: initialize() and run(). *)

\* the texts self.agent.run can answer the ToolAgent with
Responses ==
    {"{\"tool\":\"x\",\"arguments\":{\"a\":1}} trailing text",
     "{\"tool\":\"x\",\"arguments\":{\"a\":1}}",
     "{\"tool\": \"get_weather\", \"arguments\": {\"location\": \"Seoul\"}}",
     "Sure: {\"tool\":\"x\",\"arguments\":1} ok",
     "{\"tool\":\"\",\"arguments\":{}}",
     "It is sunny in Seoul.",
     "{\"tool\":\"x\"",
     "{\"tool\":\"x\",}",
     "{\"a\":1}",
     " {\"tool\":\"x\",\"arguments\":{}}\n",
     "{\"tool\":null,\"arguments\":{}}",
     "}{",
     "{\"arguments\":1,\"tool\":\"y\"} z",
     ""}

\* the default of call_tool's max_retries parameter
DefaultMaxRetries == 3

\* how ToolAgent.run ended: the parts of the text it returned or of the
\* str() of the exception it raised
NoRun == [kind |-> "none", text |-> <<>>]
RunReturned(text) == [kind |-> "returned", text |-> text]
RunRaised(text) == [kind |-> "raised", text |-> text]

\* what is remembered of the initialize() calls the handler made on its MCP
\* client: whether one has returned True, and how the latest ended
NoInits == [succeeded |-> FALSE, last |-> "none"]
Noted(seen, ok) ==
    [succeeded |-> seen.succeeded \/ ok, last |-> IF ok THEN "ok" ELSE "failed"]

\* a run that goes on without looking at self.agent
RunStart_NoCheck(initialized) == "llm"

\* `if not self.agent: raise RuntimeError("Agent not initialized")`
RunStart(initialized) == IF initialized THEN "llm" ELSE "raised"

\* a run that never takes the parser's result for a request
Wanted_Never(tc) == FALSE

\* `if tool_call:`
Wanted(tc) == tc.kind = "request"

\* final_response, built from the name of the tool and str(tool_result)
FinalResponse(tool_name, result_str) ==
    IF tool_name = JValue("string", Chars("get_weather"), 0, <<>>)
    THEN <<"U+B0A0U+C528 U+C815U+BCF4: ", result_str>>
    ELSE <<result_str>>

\* ToolAgent(...) has been constructed, with or without an MCP endpoint
InitToolAgent ==
    /\ agent = FALSE
    /\ mcp_client \in BOOLEAN
    /\ apc = "idle"
    /\ response_text = "None"
    /\ tool_call = NoRequest
    /\ run_result = NoRun
    /\ llm_calls = 0
    /\ tool_calls = <<>>
    /\ handler_inits = NoInits
    /\ user_query = "None"

\* await initialize(): the MCP session first, then the agent; a failed
\* session makes it raise before the agent is created
ToolAgentInitialize ==
    /\ apc = "idle"
    /\ pc = "idle"
    /\ ~agent
    /\ IF mcp_client
       THEN \E scn \in InitScenarios, h \in SessionHeaders(session_id) :
              LET run == InitializeRun(scn, h, session_id, available_tools)
              IN  /\ scn = "post_fails" => h = 0
                  /\ session_id' = run.session_id
                  /\ available_tools' = run.available_tools
                  /\ agent' = run.ok
                  /\ handler_inits' = Noted(handler_inits, run.ok)
       ELSE /\ agent' = TRUE
            /\ UNCHANGED <<session_id, available_tools, handler_inits>>
    /\ UNCHANGED <<variant, mcp_client, apc, response_text, tool_call, run_result,
                   llm_calls, tool_calls, user_query,
                   researchVars>>
    /\ UNCHANGED <<callVars, agentVars, routerVars, flowVars>>

\* run(message) up to its first await, self.agent.run
ToolAgentRun ==
    /\ variant = "agent_framework"
    /\ apc = "idle"
    /\ pc = "idle"
    /\ apc' = RunStart(agent)
    /\ run_result' = IF apc' = "raised" THEN RunRaised(<<"Agent not initialized">>)
                     ELSE NoRun
    /\ llm_calls' = IF apc' = "llm" THEN 1 ELSE 0
    /\ response_text' = "None"
    /\ tool_call' = NoRequest
    /\ tool_calls' = <<>>
    /\ UNCHANGED <<agent, mcp_client, handler_inits, user_query>>
    /\ UNCHANGED <<clientVars, callVars, agentVars, routerVars, flowVars, researchVars>>

\* self.agent.run answered: the text is parsed and either returned as it is
\* or turned into a call_tool with the default max_retries
ToolAgentLlmReturns ==
    /\ apc = "llm"
    /\ \E text \in Responses :
       \E rt \in {IF text = "" THEN "No response" ELSE text} :
       \E tc \in {IF mcp_client THEN ParseToolCall(Chars(rt)) ELSE NoRequest} :
         LET head == LoopHead(0, DefaultMaxRetries, FALSE, NoError)
         IN  /\ response_text' = rt
             /\ tool_call' = tc
             /\ CASE Wanted(tc) ->
                       /\ apc' = "call"
                       /\ run_result' = NoRun
                       /\ tool_calls' = <<tc>>
                       /\ max_retries' = DefaultMaxRetries
                       /\ pc' = head.pc
                       /\ outcome' = head.outcome
                       /\ UNCHANGED <<attempt, last_error, session_reinitialized,
                                      calls, inits, answers, window>>
                  [] ~Wanted(tc) /\ tc.kind = "raised" ->
                       /\ apc' = "raised"
                       /\ run_result' = RunRaised(<<"JSONDecodeError">>)
                       /\ UNCHANGED <<callVars, tool_calls>>
                  [] OTHER ->
                       /\ apc' = "returned"
                       /\ run_result' = RunReturned(<<rt>>)
                       /\ UNCHANGED <<callVars, tool_calls>>
    /\ UNCHANGED <<agent, mcp_client, llm_calls, handler_inits, user_query>>
    /\ UNCHANGED <<clientVars, agentVars, routerVars, flowVars, researchVars>>

\* self.agent.run raised: the except clause of run logs and re-raises
ToolAgentLlmRaises ==
    /\ apc = "llm"
    /\ apc' = "raised"
    /\ run_result' = RunRaised(<<"Service unavailable">>)
    /\ UNCHANGED <<agent, mcp_client, response_text, tool_call, llm_calls, tool_calls,
                   handler_inits, user_query>>
    /\ UNCHANGED <<clientVars, callVars, agentVars, routerVars, flowVars, researchVars>>

\* call_tool came back: its value is formatted, its exception re-raised
ToolAgentCallEnds ==
    /\ apc = "call"
    /\ pc \in {"returned", "raised"}
    /\ IF pc = "raised"
       THEN /\ apc' = "raised"
            /\ run_result' = RunRaised(outcome.exc.text)
       ELSE /\ apc' = "returned"
            /\ run_result' =
                 RunReturned(FinalResponse(Get(tool_call.value, <<"t", "o", "o", "l">>),
                                           outcome.value))
    /\ pc' = "idle"
    /\ max_retries' = 0
    /\ attempt' = 0
    /\ last_error' = NoError
    /\ session_reinitialized' = FALSE
    /\ outcome' = NoOutcome
    /\ calls' = 0
    /\ inits' = 0
    /\ answers' = {}
    /\ window' = <<>>
    /\ UNCHANGED <<agent, mcp_client, response_text, tool_call, llm_calls, tool_calls,
                   handler_inits, user_query>>
    /\ UNCHANGED <<clientVars, agentVars, routerVars, flowVars, researchVars>>

\* the queries run() of foundry_agent is given: one about the weather, one not
Queries == {"Seoul weather?", "training schedule"}

\* the text run() of foundry_agent returns when the session cannot be opened
NoConnection == "MCP U+C11CU+BC84U+C5D0 U+C5F0U+ACB0U+D560 U+C218 U+C5C6U+C2B5U+B2C8U+B2E4."

\* the NameError Python raises for the name `message`, which run() of
\* foundry_agent reads though its parameter is called user_query
MessageNameError == "name 'message' is not defined"

\* run(user_query) of foundry_agent.  It opens a new session first and
\* returns NoConnection if that fails.  The first statement of its span
\* reads `message`, so the try block ends in NameError before the thread is
\* created, and the except clause raises it again.
FoundryToolAgentRun ==
    /\ variant = "foundry_agent"
    /\ apc = "idle"
    /\ pc = "idle"
    /\ IF mcp_client
       THEN \E scn \in InitScenarios, h \in SessionHeaders(session_id) :
              LET run == InitializeRun(scn, h, session_id, available_tools)
              IN  /\ scn = "post_fails" => h = 0
                  /\ session_id' = run.session_id
                  /\ available_tools' = run.available_tools
                  /\ handler_inits' = Noted(handler_inits, run.ok)
                  /\ apc' = IF run.ok THEN "raised" ELSE "returned"
                  /\ run_result' = IF run.ok THEN RunRaised(<<MessageNameError>>)
                                   ELSE RunReturned(<<NoConnection>>)
       ELSE /\ apc' = "raised"
            /\ run_result' = RunRaised(<<MessageNameError>>)
            /\ UNCHANGED <<session_id, available_tools, handler_inits>>
    /\ user_query' \in Queries
    /\ llm_calls' = 0
    /\ tool_calls' = <<>>
    /\ response_text' = "None"
    /\ tool_call' = NoRequest
    /\ UNCHANGED <<variant, agent, mcp_client>>
    /\ UNCHANGED <<callVars, agentVars, routerVars, flowVars, researchVars>>

\* the caller of run took its value or its exception
ToolAgentEnd ==
    /\ apc \in {"returned", "raised"}
    /\ apc' = "idle"
    /\ response_text' = "None"
    /\ tool_call' = NoRequest
    /\ run_result' = NoRun
    /\ llm_calls' = 0
    /\ tool_calls' = <<>>
    /\ user_query' = "None"
    /\ UNCHANGED <<agent, mcp_client, handler_inits>>
    /\ UNCHANGED <<clientVars, callVars, agentVars, routerVars, flowVars, researchVars>>

-----------------------------------------------------------------------------
(* ResearchAgent of agent_framework: retrieval, prompt, generator, footer. *)
(* Its texts are kept as tuples of characters.                             *)

\* top_k of the search made by run()
TopK == 5

\* the number of characters of a content shown to the generator
ContentLimit == 500

\* the width of the rule above the citation footer
RuleWidth == 60

\* the most documents a search returns in the runs explored
MaxSources == 2

DigitChar(d) ==
    CASE d = 0 -> "0" [] d = 1 -> "1" [] d = 2 -> "2" [] d = 3 -> "3" [] d = 4 -> "4"
      [] d = 5 -> "5" [] d = 6 -> "6" [] d = 7 -> "7" [] d = 8 -> "8" [] d = 9 -> "9"

\* str(n) of a natural number
RECURSIVE NatChars(_)
NatChars(n) ==
    IF n < 10 THEN <<DigitChar(n)>> ELSE NatChars(n \div 10) \o <<DigitChar(n % 10)>>

\* a number of hundredths written with two decimals
Hundredths(r) ==
    NatChars(r \div 100) \o <<".", DigitChar((r % 100) \div 10), DigitChar(r % 10)>>

\* f"{score:.2f}" of a score given in thousandths that does not end in 5
Fixed2(score) == Hundredths((score + 5) \div 10)

\* c * n
RECURSIVE Repeat(_, _)
Repeat(c, n) == IF n = 0 THEN <<>> ELSE <<c>> \o Repeat(c, n - 1)

\* the documents the index can answer with; a document holds the fields it
\* has, the score in thousandths
Hits ==
    { ("id" :> "doc-1") @@ ("title" :> "Azure AI Search") @@
      ("content" :> "Azure AI Search indexes documents.") @@
      ("category" :> "azure") @@ ("@search.score" :> 1234),
      ("id" :> "doc-2") @@ ("title" :> "MCP Overview") @@
      ("content" :> "MCP connects agents to tools.") @@
      ("category" :> "general") @@ ("@search.score" :> 874),
      ("content" :> "MCP connects agents to tools.") }

\* what the search can yield: up to MaxSources documents, never more than top
HitLists == UNION {[1..n -> Hits] : n \in 0..(IF MaxSources < TopK THEN MaxSources ELSE TopK)}

\* how _search_knowledge_base ended: the list it returns, and what it lets
\* out to run()
SearchReturned(results) == [outcome |-> "found", results |-> results, raises |-> <<>>]

\* an except clause that logs and re-raises
SearchExcept_Reraises(e) == [outcome |-> "raised", results |-> <<>>, raises |-> <<e>>]

\* `except Exception as e: logger.error(...); return []`
SearchExcept(e) == [outcome |-> "raised", results |-> <<>>, raises |-> <<>>]

\* result.get(key, default)
GetOr(result, key, default) == IF key \in DOMAIN result THEN result[key] ELSE default

\* the list _search_knowledge_base collects from the documents
Collected(hits) ==
    [i \in 1..Len(hits) |->
        [id       |-> GetOr(hits[i], "id", "unknown"),
         title    |-> GetOr(hits[i], "title", "Untitled"),
         content  |-> GetOr(hits[i], "content", ""),
         category |-> GetOr(hits[i], "category", "general"),
         score    |-> GetOr(hits[i], "@search.score", 0)]]

\* s[:n]
Prefix(s, n) == SubSeq(s, 1, IF Len(s) < n THEN Len(s) ELSE n)

\* the lines _format_search_results adds for the results from the i-th on
RECURSIVE SourceBlocks(_, _)
SourceBlocks(results, i) ==
    IF i > Len(results) THEN <<>>
    ELSE Chars("[Source ") \o NatChars(i) \o Join(<<"] ", results[i].title, "\n">>)
         \o Join(<<"Category: ", results[i].category, "\n">>)
         \o Join(<<"Document ID: ", results[i].id, "\n">>)
         \o Chars("Content: ") \o Prefix(Chars(results[i].content), ContentLimit)
         \o Chars("...\n")
         \o Chars("(Relevance Score: ") \o Fixed2(results[i].score) \o Chars(")\n\n")
         \o SourceBlocks(results, i + 1)

\* a context that lists the results last to first
FormatSearchResults_Reversed(results) ==
    IF results = <<>> THEN Chars("No relevant information found in the knowledge base.")
    ELSE Chars("U+1F4DA Knowledge Base Search Results:\n\n")
         \o SourceBlocks([i \in 1..Len(results) |-> results[Len(results) + 1 - i]], 1)

\* _format_search_results(results)
FormatSearchResults(results) ==
    IF results = <<>> THEN Chars("No relevant information found in the knowledge base.")
    ELSE Chars("U+1F4DA Knowledge Base Search Results:\n\n") \o SourceBlocks(results, 1)

\* the entries of the citation footer from the i-th result on
RECURSIVE CitationEntries(_, _)
CitationEntries(results, i) ==
    IF i > Len(results) THEN <<>>
    ELSE Chars("**[") \o NatChars(i) \o Join(<<"]** ", results[i].title, "\n">>)
         \o Join(<<"   U+2022 Category: ", results[i].category, "\n">>)
         \o Join(<<"   U+2022 Document ID: U+0060", results[i].id, "U+0060\n">>)
         \o Chars("   U+2022 Relevance: ") \o Fixed2(results[i].score) \o Chars("\n\n")
         \o CitationEntries(results, i + 1)

\* a footer that lists the first source only
Citations_FirstOnly(results) ==
    Chars("\n\n") \o Repeat("U+2500", RuleWidth) \o Chars("\n")
    \o Chars("U+1F4DA **Sources Used:**\n\n")
    \o CitationEntries(SubSeq(results, 1, 1), 1)

\* the citation footer
Citations(results) ==
    Chars("\n\n") \o Repeat("U+2500", RuleWidth) \o Chars("\n")
    \o Chars("U+1F4DA **Sources Used:**\n\n")
    \o CitationEntries(results, 1)

\* a footer added whatever the results are
WithCitations_Always(response, results) == response \o Citations(results)

\* _format_response_with_citations(response, search_results)
WithCitations(response, results) ==
    IF results = <<>> THEN response ELSE response \o Citations(results)

\* the prompt built around the search results
RagPrompt(context, text) ==
    context \o Join(<<"\n\nUser Question: ", text,
                      "\n\nPlease answer based on the search results above. IMPORTANT: You MUST cite sources using [Source N] format where N is the source number. Place citations immediately after claims.">>)

\* the prompt built when the search found nothing
NoResultsPrompt(text) ==
    Join(<<"No relevant information found in knowledge base.\n\nUser Question: ", text,
           "\n\nPlease answer using your general knowledge and indicate that the information is not from the knowledge base.">>)

\* enhanced_message, once the search is over
EnhancedMessage(results, text) ==
    IF results # <<>> THEN RagPrompt(FormatSearchResults(results), text)
    ELSE NoResultsPrompt(text)

-----------------------------------------------------------------------------
(* main_agent_workflow: the module globals and the router executor. *)

\* the steps of _initialize_agents that can raise
InitFailures == {"none", "create_agent_client", "router_agent", "general_agent"}

\* _initialize_agents(): the globals it leaves and whether it raised, when its
\* step failAt raises, MCP_ENDPOINT is set iff hasMcp and SEARCH_ENDPOINT and
\* SEARCH_INDEX are set iff hasSearch.  g holds the five globals (TRUE: set).
InitializeAgents(g, failAt, hasMcp, hasSearch) ==
    IF g.agent_client THEN [globals |-> g, raised |-> FALSE]
    ELSE CASE failAt = "create_agent_client" ->
                [globals |-> g, raised |-> TRUE]
           [] failAt = "router_agent" ->
                [globals |-> [g EXCEPT !.agent_client = TRUE], raised |-> TRUE]
           [] failAt = "general_agent" ->
                [globals |-> [g EXCEPT !.agent_client = TRUE, !.router_agent = TRUE],
                 raised |-> TRUE]
           [] OTHER ->
                [globals |-> [agent_client |-> TRUE, router_agent |-> TRUE,
                              general_agent |-> TRUE,
                              tool_agent_instance |-> hasMcp,
                              research_agent_instance |-> hasSearch],
                 raised |-> FALSE]

Globals ==
    [agent_client |-> agent_client, router_agent |-> router_agent,
     general_agent |-> general_agent,
     tool_agent_instance |-> tool_agent_instance,
     research_agent_instance |-> research_agent_instance]

tool_keywords ==
    {"weather", "temperature", "temp", "forecast", "climate",
     "rain", "snow", "sun", "cloud", "wind", "humidity",
     "storm", "thunder", "fog", "degree", "celsius", "fahrenheit",
     "U+B0A0U+C528", "U+AE30U+C628", "U+C628U+B3C4", "U+C77CU+AE30U+C608U+BCF4"}

research_keywords ==
    {"mcp", "protocol", "rag", "retrieval", "embedding", "vector",
     "agent", "orchestration", "handoff", "delegation",
     "azure", "foundry", "search", "index", "openai", "llm",
     "architecture", "pattern", "deployment", "container", "docker",
     "thread", "tool", "function", "instruction", "prompt",
     "U+C5D0U+C774U+C804U+D2B8", "U+BA40U+D2F0", "U+AC80U+C0C9", "U+BC30U+D3EC",
     "U+C544U+D0A4U+D14DU+CC98", "U+C9C0U+C2DD"}

orchestrator_keywords == {" and ", " also ", " plus ", " additionally ", " moreover "}

\* the word count below which a message with only tool keywords goes to tool
WordThreshold == 15

\* any(kw in text_lower for kw in keywords), text_lower = msg.text.lower()
AnyKeyword(text, keywords) ==
    \E kw \in keywords : Contains(Lower(Chars(text)), Chars(kw))

has_tool(text)      == AnyKeyword(text, tool_keywords)
has_research(text)  == AnyKeyword(text, research_keywords)
has_connector(text) == AnyKeyword(text, orchestrator_keywords)

\* a rule stage that tests the pure-tool rule first and without looking for
\* research keywords
RuleStage_ToolFirst(text) ==
    IF has_tool(text) /\ WordCount(Chars(text)) < WordThreshold
    THEN "tool"
    ELSE IF has_tool(text) /\ has_research(text) /\ has_connector(text)
         THEN "orchestrator"
         ELSE "ask_ai"

\* a rule stage without the word-count guard
RuleStage_NoWordGuard(text) ==
    IF has_tool(text) /\ has_research(text) /\ has_connector(text)
    THEN "orchestrator"
    ELSE IF has_tool(text) /\ ~has_research(text)
         THEN "tool"
         ELSE "ask_ai"

\* a rule stage whose pure-tool rule gives way to a connector phrase
RuleStage_ConnectorBlocksTool(text) ==
    IF has_tool(text) /\ has_research(text) /\ has_connector(text)
    THEN "orchestrator"
    ELSE IF has_tool(text) /\ ~has_research(text) /\ ~has_connector(text)
            /\ WordCount(Chars(text)) < WordThreshold
         THEN "tool"
         ELSE "ask_ai"

\* the rule stage: the target it sends to, or "ask_ai" when it decides nothing
RuleStage(text) ==
    IF has_tool(text) /\ has_research(text) /\ has_connector(text)
    THEN "orchestrator"
    ELSE IF has_tool(text) /\ ~has_research(text)
            /\ WordCount(Chars(text)) < WordThreshold
         THEN "tool"
         ELSE "ask_ai"

\* intent = str(result.text).strip().lower()
Intent(resultText) == Lower(Strip(Chars(resultText)))

\* an if/elif chain that looks for "tool" before "orchestrator"
IntentTarget_ToolFirst(intent) ==
    IF Contains(intent, Chars("tool")) THEN "tool"
    ELSE IF Contains(intent, Chars("orchestrator")) THEN "orchestrator"
    ELSE IF Contains(intent, Chars("research")) THEN "research"
    ELSE "general"

\* the if/elif chain over the intent
IntentTarget(intent) ==
    IF Contains(intent, Chars("orchestrator")) THEN "orchestrator"
    ELSE IF Contains(intent, Chars("tool")) THEN "tool"
    ELSE IF Contains(intent, Chars("research")) THEN "research"
    ELSE "general"

\* an except clause that falls back to the general handler
RouterExcept_FallsBackToGeneral(errText) ==
    [route |-> "general", output |-> <<>>]

\* the target and output of the except clause of router_node
RouterExcept(errText) ==
    [route |-> "none", output |-> <<"Error in routing: ", errText>>]

\* the messages routed
Messages ==
    {"What's the weather in Seoul and what is RAG?",
     "Tokyo weather AND explain MCP",
     "Paris forecast plus the Azure deployment pattern and the agent handoff protocol for a container in docker",
     "Seoul weather?",
     "Weather and humidity in Busan",
     "training schedule",
     "U+C11CU+C6B8 U+B0A0U+C528",
     "WEATHER  in\tTokyo\nplease",
     "Tell me if it will rain in Seoul tomorrow because I want to go",
     "Tell me if it will rain in Seoul tomorrow because I want to go hiking",
     "Tell me if it will rain in Seoul tomorrow because I want to go hiking early",
     "What is RAG?",
     "Hello",
     "Explain the weather tool",
     "RAG weather and",
     "Tell me the weather in Seoul then explain what the MCP protocol is for an agent"}

\* the texts router_agent.run can come back with
GeneratorOutputs ==
    {"orchestrator", "tool", "research", "general",
     "Tool", " RESEARCH\n", "research tool", "tool orchestrator",
     "Route to: General", "banana", "None", ""}

NoResult == [kind |-> "none", text |-> ""]

\* no workflow run is in progress and no agent has been created
InitWorkflow ==
    /\ agent_client = FALSE
    /\ router_agent = FALSE
    /\ general_agent = FALSE
    /\ tool_agent_instance = FALSE
    /\ research_agent_instance = FALSE
    /\ rpc = "idle"
    /\ msg = ""
    /\ route = "none"
    /\ routerOutput = <<>>
    /\ genCalls = 0
    /\ genResult = NoResult

\* router_node up to its first await: _initialize_agents(), the rule stage
\* and, when that decides nothing, the call of router_agent.run
RouterNode ==
    /\ variant = "agent_framework"
    /\ rpc = "idle"
    /\ \E m \in Messages, failAt \in InitFailures, hasMcp \in BOOLEAN, hasSearch \in BOOLEAN :
         LET init == InitializeAgents(Globals, failAt, hasMcp, hasSearch)
             g    == init.globals
             rule == RuleStage(m)
         IN  /\ agent_client' = g.agent_client
             /\ router_agent' = g.router_agent
             /\ general_agent' = g.general_agent
             /\ tool_agent_instance' = g.tool_agent_instance
             /\ research_agent_instance' = g.research_agent_instance
             /\ msg' = m
             /\ genResult' = NoResult
             /\ IF init.raised
                THEN /\ rpc' = "raised"
                     /\ route' = "none"
                     /\ routerOutput' = <<>>
                     /\ genCalls' = 0
                ELSE IF rule # "ask_ai"
                THEN /\ rpc' = "done"
                     /\ route' = rule
                     /\ routerOutput' = <<>>
                     /\ genCalls' = 0
                ELSE IF ~g.router_agent
                THEN \* router_agent is None: AttributeError inside the try
                     /\ rpc' = "done"
                     /\ route' = RouterExcept("NoneType").route
                     /\ routerOutput' = RouterExcept("NoneType").output
                     /\ genCalls' = 0
                ELSE /\ rpc' = "generating"
                     /\ route' = "none"
                     /\ routerOutput' = <<>>
                     /\ genCalls' = 1
    /\ UNCHANGED <<clientVars, callVars, handlerVars, flowVars, lifecycleVars>>

\* router_agent.run returned: the intent is read and the message is sent on
RouterGeneratorReturns ==
    /\ rpc = "generating"
    /\ \E o \in GeneratorOutputs :
         /\ genResult' = [kind |-> "text", text |-> o]
         /\ route' = IntentTarget(Intent(o))
    /\ rpc' = "done"
    /\ UNCHANGED <<msg, routerOutput, genCalls>>
    /\ UNCHANGED <<clientVars, callVars, agentVars, handlerVars, flowVars>>

\* router_agent.run raised: the except clause yields the error text
RouterGeneratorRaises ==
    /\ rpc = "generating"
    /\ genResult' = [kind |-> "raised", text |-> ""]
    /\ route' = RouterExcept("generator").route
    /\ routerOutput' = RouterExcept("generator").output
    /\ rpc' = "done"
    /\ UNCHANGED <<msg, genCalls>>
    /\ UNCHANGED <<clientVars, callVars, agentVars, handlerVars, flowVars>>

\* the workflow run is over; the next message starts a new one
RouterEnd ==
    /\ rpc \in {"done", "raised"}
    /\ rpc' = "idle"
    /\ msg' = ""
    /\ route' = "none"
    /\ routerOutput' = <<>>
    /\ genCalls' = 0
    /\ genResult' = NoResult
    /\ UNCHANGED <<clientVars, callVars, agentVars, handlerVars, flowVars>>

-----------------------------------------------------------------------------
(* main_agent_workflow: the executors behind the router.  A handler's       *)
(* initialize() and run() are awaited; what run() comes back with is an    *)
(* input of the executor: a text, or an exception.                         *)

Handlers == {"tool", "research", "general"}

\* the texts the handlers' run() can return and the str() of what they raise
ToolAnswers == {"Seoul: 12C, clear"}
ResearchAnswers == {"RAG pairs retrieval with generation. [Source 1]", ""}
GeneralAnswers == {"Hello! How can I help?"}
RunErrors == {"Service unavailable"}

NoExc == [h \in Handlers |-> ""]

\* where an executor is after its test of the handler instance: done with
\* the "not configured" text, awaiting initialize(), or awaiting run()
StartOf_NoCheck(instance, ready) == IF ~ready THEN "init" ELSE "run"

StartOf(instance, ready) ==
    IF ~instance THEN "done" ELSE IF ~ready THEN "init" ELSE "run"

\* the fixed text of a handler that was never configured
NotConfigured(handler) ==
    IF handler = "tool"
    THEN <<"U+26A0U+FE0F Tool Agent: MCP endpoint not configured">>
    ELSE <<"U+26A0U+FE0F Research Agent: Search not configured">>

\* what an executor yields, and what a branch of the orchestrator returns,
\* when run() came back with text
Formatted(handler, text) ==
    CASE handler = "tool"     -> <<"U+1F527 [Tool Agent]\n", text>>
      [] handler = "research" -> <<text>>
      [] handler = "general"  -> <<"U+1F4AC ", text>>

\* the phase an executor names in its error text
Phase(handler) ==
    CASE handler = "tool"     -> "tool execution"
      [] handler = "research" -> "research"
      [] handler = "general"  -> "general conversation"

\* an except clause that lets the exception go
NodeExcept_Reraises(handler, e) == [escapes |-> TRUE, output |-> <<>>]

\* the except clause of tool_node, research_node and general_node
NodeExcept(handler, e) ==
    [escapes |-> FALSE, output |-> <<"Error in ", Phase(handler), ": ", e>>]

\* an except clause that hands back the bare message
BranchExcept_Bare(handler, e) == <<e>>

\* the except clause of run_tool() and run_research()
BranchExcept(handler, e) ==
    IF handler = "tool" THEN <<"U+26A0U+FE0F Tool Agent error: ", e>>
    ELSE <<"U+26A0U+FE0F Research Agent error: ", e>>

\* a workflow in which the message of the router reaches every executor
Delivered_ToAll(node) == rpc = "done" /\ route # "none"

\* the edges of the workflow go from the router to the four executors, and a
\* message sent with target_id reaches the executor of that id only
Delivered(node) == rpc = "done" /\ route = node

\* the gather is over when one branch is
GatherDone_Any(tb, rb) == tb = "done" \/ rb = "done"

\* `await asyncio.gather(run_tool(), run_research(), return_exceptions=True)`
\* is over
GatherDone(tb, rb) == tb = "done" /\ rb = "done"

\* the results put together in the order the branches finished
Combined_CompletionOrder(t, r, order) ==
    IF order # <<>> /\ order[1] = "research" THEN r \o <<"\n\n">> \o t
    ELSE t \o <<"\n\n">> \o r

\* combined_output = f"{tool_result}\n\n{research_result}"
Combined(t, r, order) == t \o <<"\n\n">> \o r

\* no executor has anything left to do: run_stream ends, or raises what an
\* executor let out
WorkflowOver ==
    \/ rpc = "raised"
    \/ escaped
    \/ /\ rpc = "done"
       /\ \/ route = "none"
          \/ route = "tool" /\ tool_br = "done"
          \/ route = "research" /\ research_br = "done"
          \/ route = "general" /\ general_br = "done"
          \/ route = "orchestrator" /\ orch = "done"

\* the outputs MainAgentWorkflow.run keeps: those whose strip() is not empty
RECURSIVE Kept(_)
Kept(outs) ==
    IF outs = <<>> THEN <<>>
    ELSE (IF Strip(Join(Head(outs))) # <<>> THEN <<Head(outs)>> ELSE <<>>)
         \o Kept(Tail(outs))

\* "\n".join(outputs)
RECURSIVE JoinLines(_)
JoinLines(outs) ==
    IF outs = <<>> THEN <<>>
    ELSE IF Len(outs) = 1 THEN Head(outs)
    ELSE Head(outs) \o <<"\n">> \o JoinLines(Tail(outs))

\* final_result of MainAgentWorkflow.run
FinalResult(outs) ==
    IF Kept(outs) = <<>> THEN <<"No response generated">> ELSE JoinLines(Kept(outs))

\* how a top-level run ended
HandleReturned(text) == [kind |-> "returned", text |-> text]
HandleRaised(text) == [kind |-> "raised", text |-> text]
NoHandle == [kind |-> "none", text |-> <<>>]

\* `except Exception as e: return f"Error: {str(e)}"` of MainAgentWorkflow.run
WorkflowExcept(e) == HandleReturned(<<"Error: ", e>>)

\* `except Exception as e: logger.error(...); raise` of MainAgent.run
MainAgentExcept(e) == HandleRaised(<<e>>)

\* no executor is running and no result has been produced
InitFlow ==
    /\ research_agent = FALSE
    /\ tool_br = "idle"
    /\ research_br = "idle"
    /\ general_br = "idle"
    /\ orch = "idle"
    /\ tool_result = <<>>
    /\ research_result = <<>>
    /\ exc = NoExc
    /\ finished = <<>>
    /\ escaped = FALSE
    /\ outputs = <<>>
    /\ hpc = "pending"
    /\ final_result = NoHandle

\* An executor ends: with the formatted answer when ok, through its except
\* clause when the handler raised text.
NodeEnds(handler, ok, text) ==
    LET x == IF ok THEN [escapes |-> FALSE, output |-> Formatted(handler, text)]
             ELSE NodeExcept(handler, text)
    IN  /\ exc' = IF ok THEN exc ELSE [exc EXCEPT ![handler] = text]
        /\ escaped' = x.escapes
        /\ outputs' = IF x.escapes THEN outputs ELSE Append(outputs, x.output)

\* the value a branch of the gather returns
BranchValue(handler, ok, text) ==
    IF ok THEN Formatted(handler, text) ELSE BranchExcept(handler, text)

\* tool_node up to its first await
ToolNode ==
    /\ Delivered("tool") /\ tool_br = "idle"
    /\ LET at == StartOf(tool_agent_instance, agent)
       IN  /\ tool_br' = at
           /\ outputs' = IF at = "done" THEN Append(outputs, NotConfigured("tool"))
                         ELSE outputs
    /\ UNCHANGED <<research_agent, research_br, general_br, orch, tool_result,
                   research_result, exc, finished, escaped, hpc, final_result>>
    /\ UNCHANGED <<clientVars, callVars, agentVars, routerVars, handlerVars>>

\* tool_node: `await tool_agent_instance.initialize()` came back
ToolNodeInitialized ==
    /\ route = "tool" /\ tool_br = "init"
    /\ \E scn \in InitScenarios, h \in SessionHeaders(session_id) :
         LET run == InitializeRun(scn, h, session_id, available_tools)
         IN  /\ scn = "post_fails" => h = 0
             /\ session_id' = run.session_id
             /\ available_tools' = run.available_tools
             /\ agent' = run.ok
             /\ handler_inits' = Noted(handler_inits, run.ok)
             /\ IF run.ok
                THEN /\ tool_br' = "run"
                     /\ UNCHANGED <<exc, escaped, outputs>>
                ELSE /\ tool_br' = "done"
                     /\ NodeEnds("tool", FALSE, "MCP client initialization failed")
    /\ UNCHANGED <<research_agent, research_br, general_br, orch, tool_result,
                   research_result, finished, hpc, final_result>>
    /\ UNCHANGED <<variant, mcp_client, apc, response_text, tool_call, run_result,
                   llm_calls, tool_calls, user_query,
                   researchVars>>
    /\ UNCHANGED <<callVars, agentVars, routerVars>>

\* tool_node: `await tool_agent_instance.run(msg.text)` came back
ToolNodeRan ==
    /\ route = "tool" /\ tool_br = "run"
    /\ \/ \E a \in ToolAnswers : NodeEnds("tool", TRUE, a)
       \/ \E e \in RunErrors : NodeEnds("tool", FALSE, e)
    /\ tool_br' = "done"
    /\ UNCHANGED <<research_agent, research_br, general_br, orch, tool_result,
                   research_result, finished, hpc, final_result>>
    /\ UNCHANGED <<clientVars, callVars, agentVars, routerVars, handlerVars>>

\* research_node up to its first await
ResearchNode ==
    /\ Delivered("research") /\ research_br = "idle"
    /\ LET at == StartOf(research_agent_instance, research_agent)
       IN  /\ research_br' = at
           /\ outputs' = IF at = "done" THEN Append(outputs, NotConfigured("research"))
                         ELSE outputs
    /\ UNCHANGED <<research_agent, tool_br, general_br, orch, tool_result,
                   research_result, exc, finished, escaped, hpc, final_result>>
    /\ UNCHANGED <<clientVars, callVars, agentVars, routerVars, handlerVars>>

\* research_node: `await research_agent_instance.initialize()` came back
ResearchNodeInitialized ==
    /\ route = "research" /\ research_br = "init"
    /\ \/ /\ research_agent' = TRUE
          /\ research_br' = "run"
          /\ UNCHANGED <<exc, escaped, outputs>>
       \/ /\ research_br' = "done"
          /\ \E e \in RunErrors : NodeEnds("research", FALSE, e)
          /\ UNCHANGED research_agent
    /\ UNCHANGED <<tool_br, general_br, orch, tool_result, research_result,
                   finished, hpc, final_result>>
    /\ UNCHANGED <<clientVars, callVars, agentVars, routerVars, handlerVars>>

\* research_node: `await research_agent_instance.run(msg.text)` came back
ResearchNodeRan ==
    /\ route = "research" /\ research_br = "run"
    /\ \/ \E a \in ResearchAnswers : NodeEnds("research", TRUE, a)
       \/ \E e \in RunErrors : NodeEnds("research", FALSE, e)
    /\ research_br' = "done"
    /\ UNCHANGED <<research_agent, tool_br, general_br, orch, tool_result,
                   research_result, finished, hpc, final_result>>
    /\ UNCHANGED <<clientVars, callVars, agentVars, routerVars, handlerVars>>

\* general_node up to its await; general_agent can be None after a failed
\* _initialize_agents, and `general_agent.run` then raises inside the try
GeneralNode ==
    /\ Delivered("general") /\ general_br = "idle"
    /\ IF general_agent
       THEN /\ general_br' = "run"
            /\ UNCHANGED <<exc, escaped, outputs>>
       ELSE /\ general_br' = "done"
            /\ NodeEnds("general", FALSE, "'NoneType' object has no attribute 'run'")
    /\ UNCHANGED <<research_agent, tool_br, research_br, orch, tool_result,
                   research_result, finished, hpc, final_result>>
    /\ UNCHANGED <<clientVars, callVars, agentVars, routerVars, handlerVars>>

\* general_node: `await general_agent.run(msg.text)` came back
GeneralNodeRan ==
    /\ route = "general" /\ general_br = "run"
    /\ \/ \E a \in GeneralAnswers : NodeEnds("general", TRUE, a)
       \/ \E e \in RunErrors : NodeEnds("general", FALSE, e)
    /\ general_br' = "done"
    /\ UNCHANGED <<research_agent, tool_br, research_br, orch, tool_result,
                   research_result, finished, hpc, final_result>>
    /\ UNCHANGED <<clientVars, callVars, agentVars, routerVars, handlerVars>>

\* orchestrator_node up to the await of the gather: both branches are
\* scheduled, run_tool() first
OrchestratorNode ==
    /\ Delivered("orchestrator") /\ orch = "idle"
    /\ orch' = "gather"
    /\ UNCHANGED <<research_agent, tool_br, research_br, general_br, tool_result,
                   research_result, exc, finished, escaped, outputs, hpc, final_result>>
    /\ UNCHANGED <<clientVars, callVars, agentVars, routerVars, handlerVars>>

\* run_tool() up to its first await, or to its return when there is none
RunTool ==
    /\ orch = "gather" /\ tool_br = "idle"
    /\ LET at == StartOf(tool_agent_instance, agent)
       IN  /\ tool_br' = at
           /\ IF at = "done"
              THEN /\ tool_result' = NotConfigured("tool")
                   /\ finished' = Append(finished, "tool")
              ELSE UNCHANGED <<tool_result, finished>>
    /\ UNCHANGED <<research_agent, research_br, general_br, orch, research_result,
                   exc, escaped, outputs, hpc, final_result>>
    /\ UNCHANGED <<clientVars, callVars, agentVars, routerVars, handlerVars>>

\* run_tool(): `await tool_agent_instance.initialize()` came back
RunToolInitialized ==
    /\ orch = "gather" /\ tool_br = "init"
    /\ \E scn \in InitScenarios, h \in SessionHeaders(session_id) :
         LET run == InitializeRun(scn, h, session_id, available_tools)
             e   == "MCP client initialization failed"
         IN  /\ scn = "post_fails" => h = 0
             /\ session_id' = run.session_id
             /\ available_tools' = run.available_tools
             /\ agent' = run.ok
             /\ handler_inits' = Noted(handler_inits, run.ok)
             /\ IF run.ok
                THEN /\ tool_br' = "run"
                     /\ UNCHANGED <<tool_result, exc, finished>>
                ELSE /\ tool_br' = "done"
                     /\ tool_result' = BranchValue("tool", FALSE, e)
                     /\ exc' = [exc EXCEPT !["tool"] = e]
                     /\ finished' = Append(finished, "tool")
    /\ UNCHANGED <<research_agent, research_br, general_br, orch, research_result,
                   escaped, outputs, hpc, final_result>>
    /\ UNCHANGED <<variant, mcp_client, apc, response_text, tool_call, run_result,
                   llm_calls, tool_calls, user_query,
                   researchVars>>
    /\ UNCHANGED <<callVars, agentVars, routerVars>>

\* run_tool(): `await tool_agent_instance.run(msg.text)` came back
RunToolRan ==
    /\ orch = "gather" /\ tool_br = "run"
    /\ \/ \E a \in ToolAnswers :
            /\ tool_result' = BranchValue("tool", TRUE, a)
            /\ UNCHANGED exc
       \/ \E e \in RunErrors :
            /\ tool_result' = BranchValue("tool", FALSE, e)
            /\ exc' = [exc EXCEPT !["tool"] = e]
    /\ tool_br' = "done"
    /\ finished' = Append(finished, "tool")
    /\ UNCHANGED <<research_agent, research_br, general_br, orch, research_result,
                   escaped, outputs, hpc, final_result>>
    /\ UNCHANGED <<clientVars, callVars, agentVars, routerVars, handlerVars>>

\* run_research() up to its first await, or to its return when there is none
RunResearch ==
    /\ orch = "gather" /\ research_br = "idle" /\ tool_br # "idle"
    /\ LET at == StartOf(research_agent_instance, research_agent)
       IN  /\ research_br' = at
           /\ IF at = "done"
              THEN /\ research_result' = NotConfigured("research")
                   /\ finished' = Append(finished, "research")
              ELSE UNCHANGED <<research_result, finished>>
    /\ UNCHANGED <<research_agent, tool_br, general_br, orch, tool_result,
                   exc, escaped, outputs, hpc, final_result>>
    /\ UNCHANGED <<clientVars, callVars, agentVars, routerVars, handlerVars>>

\* run_research(): `await research_agent_instance.initialize()` came back
RunResearchInitialized ==
    /\ orch = "gather" /\ research_br = "init"
    /\ \/ /\ research_agent' = TRUE
          /\ research_br' = "run"
          /\ UNCHANGED <<research_result, exc, finished>>
       \/ \E e \in RunErrors :
            /\ research_br' = "done"
            /\ research_result' = BranchValue("research", FALSE, e)
            /\ exc' = [exc EXCEPT !["research"] = e]
            /\ finished' = Append(finished, "research")
            /\ UNCHANGED research_agent
    /\ UNCHANGED <<tool_br, general_br, orch, tool_result, escaped, outputs,
                   hpc, final_result>>
    /\ UNCHANGED <<clientVars, callVars, agentVars, routerVars, handlerVars>>

\* run_research(): `await research_agent_instance.run(msg.text)` came back
RunResearchRan ==
    /\ orch = "gather" /\ research_br = "run"
    /\ \/ \E a \in ResearchAnswers :
            /\ research_result' = BranchValue("research", TRUE, a)
            /\ UNCHANGED exc
       \/ \E e \in RunErrors :
            /\ research_result' = BranchValue("research", FALSE, e)
            /\ exc' = [exc EXCEPT !["research"] = e]
    /\ research_br' = "done"
    /\ finished' = Append(finished, "research")
    /\ UNCHANGED <<research_agent, tool_br, general_br, orch, tool_result,
                   escaped, outputs, hpc, final_result>>
    /\ UNCHANGED <<clientVars, callVars, agentVars, routerVars, handlerVars>>

\* the gather is over: the two results are put together and yielded
OrchestratorJoin ==
    /\ orch = "gather"
    /\ GatherDone(tool_br, research_br)
    /\ orch' = "done"
    /\ outputs' = Append(outputs, Combined(tool_result, research_result, finished))
    /\ UNCHANGED <<research_agent, tool_br, research_br, general_br, tool_result,
                   research_result, exc, finished, escaped, hpc, final_result>>
    /\ UNCHANGED <<clientVars, callVars, agentVars, routerVars, handlerVars>>

-----------------------------------------------------------------------------
(* The top-level run of each variant. *)

\* the str() of what run_stream raises: what _initialize_agents raised in
\* router_node, or what an executor let out
WorkflowError ==
    IF rpc = "raised" THEN "agent initialization failed"
    ELSE LET h == CHOOSE x \in Handlers : exc[x] # "" IN exc[h]

\* MainAgentWorkflow.run: run_stream is exhausted or has raised
WorkflowRunReturns ==
    /\ hpc = "pending"
    /\ WorkflowOver
    /\ LET all == (IF routerOutput = <<>> THEN <<>> ELSE <<routerOutput>>) \o outputs
           end == IF rpc = "raised" \/ escaped THEN WorkflowExcept(WorkflowError)
                  ELSE HandleReturned(FinalResult(all))
       IN  /\ final_result' = end
           /\ hpc' = end.kind
    /\ UNCHANGED <<research_agent, tool_br, research_br, general_br, orch, tool_result,
                   research_result, exc, finished, escaped, outputs>>
    /\ UNCHANGED <<clientVars, callVars, agentVars, routerVars, handlerVars>>

\* the calls MainAgent.run makes to the agents service, each of which can raise
MainAgentSteps == {"threads.create", "messages.create", "runs.create_and_process",
                   "messages.list"}

TextPart(value) == [type |-> "text", value |-> value]
ImagePart == [type |-> "image_file", value |-> ""]
Message(role, content) == [role |-> role, content |-> content]

\* what messages.list can hold, newest first
Threads ==
    {<<>>,
     <<Message("user", <<TextPart("Hello")>>)>>,
     <<Message("assistant", <<TextPart("Hello! How can I help?")>>),
       Message("user", <<TextPart("Hello")>>)>>,
     <<Message("assistant", <<>>), Message("user", <<TextPart("Hello")>>)>>,
     <<Message("assistant", <<ImagePart>>),
       Message("assistant", <<ImagePart, TextPart("Hello! How can I help?")>>),
       Message("user", <<TextPart("Hello")>>)>>}

\* the loop of MainAgent.run over messages_list: the first text part of an
\* assistant message, "No response generated" if there is none
RECURSIVE FirstAssistantText(_)
FirstAssistantText(messages_list) ==
    IF messages_list = <<>> THEN "No response generated"
    ELSE LET m == Head(messages_list)
             texts == SelectSeq(m.content, LAMBDA part : part.type = "text")
         IN  IF m.role = "assistant" /\ texts # <<>> THEN texts[1].value
             ELSE FirstAssistantText(Tail(messages_list))

\* MainAgent.run of foundry_agent, which holds no await
MainAgentRun ==
    /\ variant = "foundry_agent"
    /\ hpc = "pending"
    /\ \E failAt \in MainAgentSteps \cup {"none"}, thread \in Threads :
         LET end == IF failAt # "none" THEN MainAgentExcept("Service unavailable")
                    ELSE HandleReturned(<<FirstAssistantText(thread)>>)
         IN  /\ failAt # "none" => thread = <<>>
             /\ final_result' = end
             /\ hpc' = end.kind
    /\ UNCHANGED <<research_agent, tool_br, research_br, general_br, orch, tool_result,
                   research_result, exc, finished, escaped, outputs>>
    /\ UNCHANGED <<clientVars, callVars, agentVars, routerVars, handlerVars>>

\* the caller of the top-level run has its answer; the next message follows
HandleEnd ==
    /\ hpc \in {"returned", "raised"}
    /\ hpc' = "pending"
    /\ final_result' = NoHandle
    /\ tool_br' = "idle"
    /\ research_br' = "idle"
    /\ general_br' = "idle"
    /\ orch' = "idle"
    /\ tool_result' = <<>>
    /\ research_result' = <<>>
    /\ exc' = NoExc
    /\ finished' = <<>>
    /\ escaped' = FALSE
    /\ outputs' = <<>>
    /\ rpc' = "idle"
    /\ msg' = ""
    /\ route' = "none"
    /\ routerOutput' = <<>>
    /\ genCalls' = 0
    /\ genResult' = NoResult
    /\ UNCHANGED <<research_agent, clientVars, callVars, agentVars, handlerVars>>

-----------------------------------------------------------------------------
(* ResearchAgent.initialize and ResearchAgent.run. *)

\* the questions put to the Research handler
ResearchQueries == {"What is RAG?", "training schedule"}

\* what the generator can answer
GeneratedTexts == {"RAG pairs retrieval with generation. [Source 1]", "I do not know.", ""}

\* how ResearchAgent.run ended: the characters of the text it returned, or
\* the parts of the str() of the exception it raised
NoResearchRun == [kind |-> "none", text |-> <<>>]
ResearchReturned(text) == [kind |-> "returned", text |-> text]
ResearchRaised(text) == [kind |-> "raised", text |-> text]

\* ResearchAgent(...) has been constructed.  search_client stands for the
\* search endpoint, index and key being given, which is what makes
\* initialize() set self.search_client; run() reads it after initialize().
InitResearchAgent ==
    /\ search_client \in BOOLEAN
    /\ spc = "idle"
    /\ query = "None"
    /\ search_results = <<>>
    /\ enhanced_message = <<>>
    /\ generated = "None"
    /\ research_run = NoResearchRun
    /\ search_outcome = "none"

\* await initialize(): the clients and the agent are created
ResearchAgentInitialize ==
    /\ spc = "idle"
    /\ ~research_agent
    /\ research_agent' = TRUE
    /\ UNCHANGED <<tool_br, research_br, general_br, orch, tool_result, research_result,
                   exc, finished, escaped, outputs, hpc, final_result>>
    /\ UNCHANGED <<clientVars, callVars, agentVars, routerVars, handlerVars>>

\* run(message) up to its first await: the search if there is a search
\* client, the generator otherwise
ResearchAgentRun ==
    /\ spc = "idle"
    /\ \E text \in ResearchQueries :
         /\ query' = text
         /\ IF ~research_agent
            THEN /\ spc' = "raised"
                 /\ research_run' = ResearchRaised(<<"Agent not initialized">>)
                 /\ enhanced_message' = <<>>
            ELSE /\ research_run' = NoResearchRun
                 /\ IF search_client
                    THEN /\ spc' = "search"
                         /\ enhanced_message' = <<>>
                    ELSE /\ spc' = "generate"
                         /\ enhanced_message' = Chars(text)
    /\ search_results' = <<>>
    /\ search_outcome' = "none"
    /\ UNCHANGED <<search_client, generated>>
    /\ UNCHANGED <<agent, mcp_client, apc, response_text, tool_call, run_result,
                   llm_calls, tool_calls, handler_inits, user_query>>
    /\ UNCHANGED <<clientVars, callVars, agentVars, routerVars, flowVars>>

\* _search_knowledge_base came back: with the documents found, or with an
\* empty list after an exception of the search; the prompt is built
ResearchSearched ==
    /\ spc = "search"
    /\ \E end \in {SearchReturned(Collected(hits)) : hits \in HitLists}
                 \cup {SearchExcept(e) : e \in RunErrors} :
         /\ search_outcome' = end.outcome
         /\ search_results' = end.results
         /\ IF end.raises = <<>>
            THEN /\ enhanced_message' = EnhancedMessage(end.results, query)
                 /\ spc' = "generate"
                 /\ UNCHANGED research_run
            ELSE /\ enhanced_message' = <<>>
                 /\ spc' = "raised"
                 /\ research_run' = ResearchRaised(end.raises)
    /\ UNCHANGED <<search_client, query, generated>>
    /\ UNCHANGED <<agent, mcp_client, apc, response_text, tool_call, run_result,
                   llm_calls, tool_calls, handler_inits, user_query>>
    /\ UNCHANGED <<clientVars, callVars, agentVars, routerVars, flowVars>>

\* self.agent.run(enhanced_message) answered: the footer is added
ResearchGenerated ==
    /\ spc = "generate"
    /\ \E text \in GeneratedTexts :
         /\ generated' = text
         /\ research_run' = ResearchReturned(WithCitations(Chars(text), search_results))
    /\ spc' = "returned"
    /\ UNCHANGED <<search_client, query, search_results, enhanced_message,
                   search_outcome>>
    /\ UNCHANGED <<agent, mcp_client, apc, response_text, tool_call, run_result,
                   llm_calls, tool_calls, handler_inits, user_query>>
    /\ UNCHANGED <<clientVars, callVars, agentVars, routerVars, flowVars>>

\* self.agent.run raised: the except clause of run logs and re-raises
ResearchGeneratorRaises ==
    /\ spc = "generate"
    /\ \E e \in RunErrors : research_run' = ResearchRaised(<<e>>)
    /\ spc' = "raised"
    /\ UNCHANGED <<search_client, query, search_results, enhanced_message, generated,
                   search_outcome>>
    /\ UNCHANGED <<agent, mcp_client, apc, response_text, tool_call, run_result,
                   llm_calls, tool_calls, handler_inits, user_query>>
    /\ UNCHANGED <<clientVars, callVars, agentVars, routerVars, flowVars>>

\* the caller of run took its value or its exception
ResearchAgentEnd ==
    /\ spc \in {"returned", "raised"}
    /\ spc' = "idle"
    /\ query' = "None"
    /\ search_results' = <<>>
    /\ enhanced_message' = <<>>
    /\ generated' = "None"
    /\ research_run' = NoResearchRun
    /\ search_outcome' = "none"
    /\ UNCHANGED search_client
    /\ UNCHANGED <<agent, mcp_client, apc, response_text, tool_call, run_result,
                   llm_calls, tool_calls, handler_inits, user_query>>
    /\ UNCHANGED <<clientVars, callVars, agentVars, routerVars, flowVars>>

-----------------------------------------------------------------------------
(* The requests the /chat endpoint handles at the same time: each awaits
   the top-level run, and the executors they reach share the two handler
   instances of the module. *)

Requests == 1..MaxRequests
\* the handlers that are built once for the process
SharedHandlers == {"tool", "research"}

\* no request is in an executor and initialize() was never executed
InitLifecycle ==
    /\ lanes = [r \in Requests |-> [h \in SharedHandlers |-> "idle"]]
    /\ initialize_runs = [h \in SharedHandlers |-> 0]
    /\ closed = FALSE

\* tool_agent_instance or research_agent_instance
Instance(h) == IF h = "tool" THEN tool_agent_instance ELSE research_agent_instance

\* `instance.agent` of that instance
Ready(h) == IF h = "tool" THEN agent ELSE research_agent

\* tool_node, research_node, run_tool() or run_research() of request r up
\* to its first await: `if not instance.agent: await instance.initialize()`
\* begins an execution of initialize(), else instance.run(msg.text) begins
LaneEnters ==
    \E r \in Requests, h \in SharedHandlers :
        LET at == StartOf(Instance(h), Ready(h))
        IN  /\ lanes[r][h] = "idle"
            /\ at = "init" => initialize_runs[h] < MaxInitializeRuns
            /\ lanes' = [lanes EXCEPT ![r][h] = at]
            /\ initialize_runs' =
                 IF at = "init" THEN [initialize_runs EXCEPT ![h] = @ + 1]
                 ELSE initialize_runs
            /\ UNCHANGED <<agent_client, router_agent, general_agent,
                           tool_agent_instance, research_agent_instance, closed>>
            /\ UNCHANGED <<clientVars, callVars, routerVars, handlerVars, flowVars>>

\* `await tool_agent_instance.initialize()` of request r came back: the
\* session of the shared client was opened again, and self.agent is set
\* unless the session failed
LaneToolInitialized ==
    \E r \in Requests, scn \in InitScenarios, h \in SessionHeaders(session_id) :
        LET run == InitializeRun(scn, h, session_id, available_tools)
        IN  /\ lanes[r]["tool"] = "init"
            /\ scn = "post_fails" => h = 0
            /\ session_id' = run.session_id
            /\ available_tools' = run.available_tools
            /\ agent' = (agent \/ run.ok)
            /\ handler_inits' = Noted(handler_inits, run.ok)
            /\ lanes' = [lanes EXCEPT ![r]["tool"] = IF run.ok THEN "run" ELSE "error"]
            /\ UNCHANGED <<agent_client, router_agent, general_agent,
                           tool_agent_instance, research_agent_instance,
                           initialize_runs, closed>>
            /\ UNCHANGED <<variant, mcp_client, apc, response_text, tool_call, run_result,
                           llm_calls, tool_calls, user_query, researchVars>>
            /\ UNCHANGED <<callVars, routerVars, flowVars>>

\* `await research_agent_instance.initialize()` of request r came back
LaneResearchInitialized ==
    \E r \in Requests, ok \in BOOLEAN :
        /\ lanes[r]["research"] = "init"
        /\ research_agent' = (research_agent \/ ok)
        /\ lanes' = [lanes EXCEPT ![r]["research"] = IF ok THEN "run" ELSE "error"]
        /\ UNCHANGED <<agent_client, router_agent, general_agent,
                       tool_agent_instance, research_agent_instance, initialize_runs,
                       closed>>
        /\ UNCHANGED <<tool_br, research_br, general_br, orch, tool_result,
                       research_result, exc, finished, escaped, outputs, hpc,
                       final_result>>
        /\ UNCHANGED <<clientVars, callVars, routerVars, handlerVars>>

\* `await instance.run(msg.text)` of request r came back or raised
LaneRan ==
    \E r \in Requests, h \in SharedHandlers, ok \in BOOLEAN :
        /\ lanes[r][h] = "run"
        /\ lanes' = [lanes EXCEPT ![r][h] = IF ok THEN "done" ELSE "error"]
        /\ UNCHANGED <<agent_client, router_agent, general_agent,
                       tool_agent_instance, research_agent_instance, initialize_runs,
                       closed>>
        /\ UNCHANGED <<clientVars, callVars, routerVars, handlerVars, flowVars>>

\* the executor of request r has yielded its output; the endpoint takes the
\* next request
LaneEnd ==
    \E r \in Requests, h \in SharedHandlers :
        /\ lanes[r][h] \in {"done", "error"}
        /\ lanes' = [lanes EXCEPT ![r][h] = "idle"]
        /\ UNCHANGED <<agent_client, router_agent, general_agent,
                       tool_agent_instance, research_agent_instance, initialize_runs,
                       closed>>
        /\ UNCHANGED <<clientVars, callVars, routerVars, handlerVars, flowVars>>

-----------------------------------------------------------------------------
(* Specifications. *)

\* one MCPClient of either variant, used from a handler
InitMCP == InitLifecycle /\ InitClient /\ InitWorkflow /\ InitToolAgent /\ mcp_client = TRUE /\ InitFlow
           /\ InitResearchAgent /\ search_client = TRUE
NextMCP ==
    \/ ClientInitialize
    \/ CallToolStart
    \/ Reinitialize
    \/ ToolCallAttempt
    \/ CallToolEnd
    \/ ToolAgentCleanup
SpecMCP == InitMCP /\ [][NextMCP]_vars
\* every await of call_tool comes back: the requests are made with a timeout
\* (60 s for tools/call, 30 s inside initialize()) and asyncio.sleep returns
SpecMCPFair == SpecMCP /\ WF_vars(Reinitialize) /\ WF_vars(ToolCallAttempt)

\* the router of the agent_framework workflow, message after message
InitRouter == InitLifecycle /\ InitClient /\ variant = "agent_framework" /\ InitWorkflow
              /\ InitToolAgent /\ mcp_client = TRUE /\ InitFlow
              /\ InitResearchAgent /\ search_client = TRUE
NextRouter == RouterNode \/ RouterGeneratorReturns \/ RouterGeneratorRaises \/ RouterEnd
SpecRouter == InitRouter /\ [][NextRouter]_vars

\* one ToolAgent of agent_framework: initialize(), then run() after run(),
\* each with the call_tool its answer asks for
InitToolRun == InitLifecycle /\ InitClient /\ InitWorkflow /\ InitToolAgent /\ InitFlow
               /\ InitResearchAgent /\ search_client = TRUE
NextToolRun ==
    \/ ToolAgentInitialize
    \/ ToolAgentRun
    \/ FoundryToolAgentRun
    \/ ToolAgentLlmReturns
    \/ ToolAgentLlmRaises
    \/ Reinitialize
    \/ ToolCallAttempt
    \/ ToolAgentCallEnds
    \/ ToolAgentEnd
SpecToolRun == InitToolRun /\ [][NextToolRun]_vars

\* the top-level run of either variant, message after message: the workflow
\* of agent_framework from the router to the executors, MainAgent.run of
\* foundry_agent
InitHandle == InitLifecycle /\ InitClient /\ InitWorkflow /\ InitToolAgent /\ mcp_client = TRUE
              /\ InitFlow /\ InitResearchAgent /\ search_client = TRUE
NextHandle ==
    \/ RouterNode
    \/ RouterGeneratorReturns
    \/ RouterGeneratorRaises
    \/ ToolNode
    \/ ToolNodeInitialized
    \/ ToolNodeRan
    \/ ResearchNode
    \/ ResearchNodeInitialized
    \/ ResearchNodeRan
    \/ GeneralNode
    \/ GeneralNodeRan
    \/ OrchestratorNode
    \/ RunTool
    \/ RunToolInitialized
    \/ RunToolRan
    \/ RunResearch
    \/ RunResearchInitialized
    \/ RunResearchRan
    \/ OrchestratorJoin
    \/ WorkflowRunReturns
    \/ MainAgentRun
    \/ HandleEnd
SpecHandle == InitHandle /\ [][NextHandle]_vars

\* one ResearchAgent: initialize(), then run() after run()
InitResearch == InitLifecycle /\ InitClient /\ variant = "agent_framework" /\ InitWorkflow
                /\ InitToolAgent /\ mcp_client = TRUE /\ InitFlow /\ InitResearchAgent
NextResearch ==
    \/ ResearchAgentInitialize
    \/ ResearchAgentRun
    \/ ResearchSearched
    \/ ResearchGenerated
    \/ ResearchGeneratorRaises
    \/ ResearchAgentEnd
SpecResearch == InitResearch /\ [][NextResearch]_vars

\* the requests of the /chat endpoint on the handler instances that
\* initialize_agents() has created, one after the other and at the same time
InitChat ==
    /\ InitLifecycle /\ InitClient /\ variant = "agent_framework"
    /\ InitToolAgent /\ mcp_client = TRUE /\ InitFlow
    /\ InitResearchAgent /\ search_client = TRUE
    /\ agent_client = TRUE /\ router_agent = TRUE /\ general_agent = TRUE
    /\ tool_agent_instance \in BOOLEAN /\ research_agent_instance \in BOOLEAN
    /\ rpc = "idle" /\ msg = "" /\ route = "none" /\ routerOutput = <<>>
    /\ genCalls = 0 /\ genResult = NoResult
NextChat ==
    \/ LaneEnters
    \/ LaneToolInitialized
    \/ LaneResearchInitialized
    \/ LaneRan
    \/ LaneEnd
SpecChat == InitChat /\ [][NextChat]_vars

-----------------------------------------------------------------------------
(* Properties of call_tool, checked under SpecMCP. *)

\* call_tool has ended and its caller has not yet taken the result
Ended == pc \in {"returned", "raised"}

\* the request sent last was a tools/call
LastIsCall == window # <<>> /\ window[Len(window)].method = "tools/call"

\* the answer to the tools/call request sent last
LastAnswer == window[Len(window)].resp

\* the exception raised below the loop, as against one re-raised inside it
IsExhausted(e) == e.text # <<>> /\ Head(e.text) = "MCP call failed after "

\* C1: against a transport whose every tools/call request times out,
\* call_tool never sends more than max_retries tools/call requests, never
\* returns a value, and ends by raising after exactly max_retries of them,
\* in both variants.
C1_TimeoutsExhaustRetries ==
    answers \subseteq {"timeout"} =>
        /\ calls <= max_retries
        /\ pc # "returned"
        /\ Ended => /\ pc = "raised"
                    /\ calls = max_retries
                    /\ outcome.kind = "raised"
                    /\ IsExhausted(outcome.exc)

\* call_tool with the default max_retries has raised after three timeouts
C1_Witness ==
    /\ pc = "raised"
    /\ answers = {"timeout"}
    /\ max_retries = 3
    /\ calls = 3
    /\ variant = "foundry_agent"

\* C2: against a backend that answers every attempt with an error object
\* whose message contains "session", call_tool makes max_retries attempts and
\* then raises a failure that carries the last error; it never ends by
\* returning a value.
C2_SessionErrorsEndInFailure ==
    (Ended /\ answers = {"session_message"}) =>
        /\ pc = "raised"
        /\ calls = max_retries
        /\ outcome.exc.text # <<>>
        /\ outcome.exc.text[Len(outcome.exc.text)] = Response("session_message").message

\* C3: an attempt that follows an attempt answered by a session error is
\* preceded by a call of initialize() made after that answer.
C3_ReinitializeAfterEverySessionError ==
    (/\ Len(window) > 1
     /\ LastIsCall
     /\ window[1].method = "tools/call"
     /\ window[1].resp = "session_message")
        => \E k \in 2..(Len(window) - 1) : window[k].method = "initialize"

\* the answers that are neither a transport error nor a session-invalid error
OtherFailures == {"http500", "other_error", "bad_json"}

\* C4: an attempt answered by a failure that is neither transient nor
\* session-invalid makes call_tool fail at once: it raises and sends no
\* further request.
C4_OtherFailuresAreFatal ==
    (LastIsCall /\ LastAnswer \in OtherFailures) => pc = "raised"

\* the HTTP statuses the claim counts as session-invalid
SessionStatuses == {"http400", "http401", "http403"}

\* C5: an attempt answered by HTTP 400, 401 or 403 is retried while attempts
\* remain, and when every attempt is answered so call_tool raises after
\* max_retries attempts.
C5_SessionStatusesAreRetried ==
    (LastIsCall /\ LastAnswer \in SessionStatuses) =>
        /\ pc # "returned"
        /\ pc = "raised" => calls = max_retries
        /\ calls < max_retries => pc \in {"reinit", "post"}

-----------------------------------------------------------------------------
(* Properties of router_node, checked under SpecRouter. *)

\* the message being routed holds a tool keyword, a research keyword and a
\* connector phrase
MultiIntent == msg # "" /\ has_tool(msg) /\ has_research(msg) /\ has_connector(msg)

\* the message being routed holds a tool keyword and no research keyword
PureTool == msg # "" /\ has_tool(msg) /\ ~has_research(msg)

C7_LongToolMessageAsksGenerator ==
    (PureTool /\ WordCount(Chars(msg)) >= WordThreshold) =>
        /\ route # "none" =>
              /\ genCalls = 1
              /\ genResult.kind = "text"
              /\ route = IntentTarget(Intent(genResult.text))
        /\ (rpc = "done" /\ router_agent) => genCalls = 1
        /\ (rpc = "done" /\ route = "none") => routerOutput # <<>>

\* a message of exactly 15 words with a tool keyword was routed by the label
C7_Witness ==
    /\ rpc = "done"
    /\ msg = "Tell me if it will rain in Seoul tomorrow because I want to go hiking"
    /\ genCalls = 1
    /\ genResult = [kind |-> "text", text |-> "general"]
    /\ route = "general"

\* C8: a message with a tool keyword, no research keyword and fewer than 15
\* words is sent to the tool executor by every run of router_node that gets
\* past _initialize_agents(), without a call of router_agent.run, with or
\* without a connector phrase in it.
C8_ShortToolMessageGoesToTool ==
    (PureTool /\ WordCount(Chars(msg)) < WordThreshold) =>
        /\ genCalls = 0
        /\ genResult = NoResult
        /\ rpc # "generating"
        /\ rpc = "done" => (route = "tool" /\ routerOutput = <<>>)

\* a short tool message holding a connector phrase was sent to tool
C8_Witness ==
    /\ rpc = "done"
    /\ msg = "Weather and humidity in Busan"
    /\ has_connector(msg)
    /\ route = "tool"
    /\ genCalls = 0

\* the label is a case-insensitive substring of the generator's text
Names(label) == Contains(Lower(Chars(genResult.text)), Chars(label))

\* C9: once router_agent.run has returned a text, the message is sent to the
\* first of orchestrator, tool, research that the text contains regardless
\* of case, to general when it contains none, and the router reports no
\* failure, whatever the text.
C9_LabelPriority ==
    genResult.kind = "text" =>
        /\ rpc = "done"
        /\ routerOutput = <<>>
        /\ route = "orchestrator" <=> Names("orchestrator")
        /\ route = "tool" <=> (~Names("orchestrator") /\ Names("tool"))
        /\ route = "research" <=>
              (~Names("orchestrator") /\ ~Names("tool") /\ Names("research"))
        /\ route = "general" <=>
              (~Names("orchestrator") /\ ~Names("tool") /\ ~Names("research"))

\* a text naming research before tool was routed to tool
C9_Witness ==
    /\ rpc = "done"
    /\ genResult = [kind |-> "text", text |-> "research tool"]
    /\ route = "tool"

\* C10: when router_agent.run raises, the router yields an error text,
\* sends the message to no executor and has called the generator once.
C10_GeneratorFailureIsRoutingError ==
    genResult.kind = "raised" =>
        /\ rpc = "done"
        /\ route = "none"
        /\ routerOutput # <<>>
        /\ Head(routerOutput) = "Error in routing: "
        /\ genCalls = 1

\* the generator call of a run has raised
C10_Witness ==
    /\ rpc = "done"
    /\ genResult.kind = "raised"
    /\ genCalls = 1
    /\ msg = "Hello"

-----------------------------------------------------------------------------
(* Properties of the orchestrator, checked under SpecHandle. *)

\* the texts a branch of the gather can put in its slot
ToolAnswerTexts == {<<"U+1F527 [Tool Agent]\n", a>> : a \in ToolAnswers}
ResearchAnswerTexts == {<<a>> : a \in ResearchAnswers}
ToolErrorTexts ==
    {<<"U+26A0U+FE0F Tool Agent error: ", e>> :
        e \in RunErrors \cup {"MCP client initialization failed"}}
ResearchErrorTexts == {<<"U+26A0U+FE0F Research Agent error: ", e>> : e \in RunErrors}
ToolDisabledText == <<"U+26A0U+FE0F Tool Agent: MCP endpoint not configured">>
ResearchDisabledText == <<"U+26A0U+FE0F Research Agent: Search not configured">>

\* C11: when a branch of the orchestrator raises, the other branch still
\* runs to its end, the orchestrator raises nothing and yields exactly one
\* text: the tool slot, a blank line, the research slot, where the slot of
\* the branch that raised holds its formatted error text around the message
\* of the exception and the slot of a branch that answered holds its answer.
C11_BranchFailureIsContained ==
    (orch = "done" /\ (exc["tool"] # "" \/ exc["research"] # "")) =>
        /\ ~escaped
        /\ tool_br = "done" /\ research_br = "done"
        /\ Len(outputs) = 1
        /\ outputs[1] = tool_result \o <<"\n\n">> \o research_result
        /\ exc["tool"] # "" =>
               tool_result = <<"U+26A0U+FE0F Tool Agent error: ", exc["tool"]>>
        /\ exc["research"] # "" =>
               research_result = <<"U+26A0U+FE0F Research Agent error: ", exc["research"]>>
        /\ (exc["tool"] = "" /\ tool_agent_instance) => tool_result \in ToolAnswerTexts
        /\ (exc["research"] = "" /\ research_agent_instance) =>
               research_result \in ResearchAnswerTexts

\* the tool branch raised, the research branch answered, the output is out
C11_Witness ==
    /\ orch = "done"
    /\ exc["tool"] = "Service unavailable"
    /\ exc["research"] = ""
    /\ research_result = <<"RAG pairs retrieval with generation. [Source 1]">>
    /\ Len(outputs) = 1

\* C12: the combined output of the orchestrator is always the tool text, a
\* blank line, then the research text, whichever branch finished first.
C12_ToolTextFirst ==
    orch = "done" =>
        \E t \in ToolAnswerTexts \cup ToolErrorTexts \cup {ToolDisabledText},
           r \in ResearchAnswerTexts \cup ResearchErrorTexts \cup {ResearchDisabledText} :
            /\ t = tool_result
            /\ r = research_result
            /\ outputs = << t \o <<"\n\n">> \o r >>

\* the research branch finished before the tool branch, both with an answer
C12_Witness ==
    /\ orch = "done"
    /\ finished = <<"research", "tool">>
    /\ tool_result \in ToolAnswerTexts
    /\ research_result \in ResearchAnswerTexts

\* C13: the orchestrator yields its output only after both branches have
\* finished: in no state is there an output while a branch is still running.
C13_OutputAfterBothBranches ==
    (route = "orchestrator" /\ (outputs # <<>> \/ orch = "done")) =>
        /\ tool_br = "done"
        /\ research_br = "done"
        /\ Len(finished) = 2

\* the output is out after the tool branch waited for the research branch
C13_Witness ==
    /\ orch = "done"
    /\ outputs # <<>>
    /\ finished = <<"tool", "research">>
    /\ exc["research"] # ""

\* C14: a handler that was never configured answers with its fixed "not
\* configured" text and raises nothing; in the orchestrator that text takes
\* the handler's slot and the other branch runs as it does otherwise.
C14_DisabledHandlerAnswersFixedText ==
    /\ (route = "tool" /\ tool_br = "done" /\ ~tool_agent_instance) =>
           outputs = <<ToolDisabledText>> /\ ~escaped /\ exc["tool"] = ""
    /\ (route = "research" /\ research_br = "done" /\ ~research_agent_instance) =>
           outputs = <<ResearchDisabledText>> /\ ~escaped /\ exc["research"] = ""
    /\ (orch = "done" /\ ~tool_agent_instance) =>
           /\ outputs = << ToolDisabledText \o <<"\n\n">> \o research_result >>
           /\ research_agent_instance =>
                  research_result \in ResearchAnswerTexts \cup ResearchErrorTexts
    /\ (orch = "done" /\ ~research_agent_instance) =>
           /\ outputs = << tool_result \o <<"\n\n">> \o ResearchDisabledText >>
           /\ tool_agent_instance =>
                  tool_result \in ToolAnswerTexts \cup ToolErrorTexts

\* the orchestrator has joined a disabled tool branch and a research answer
C14_Witness ==
    /\ orch = "done"
    /\ ~tool_agent_instance
    /\ research_agent_instance
    /\ tool_result = ToolDisabledText
    /\ research_result \in ResearchAnswerTexts

\* the decoded object {"tool": "x", "arguments": {"a": 1}}
NestedRequest ==
    JValue("object", <<>>, 0,
           << [key |-> <<"t", "o", "o", "l">>,
               value |-> JValue("string", <<"x">>, 0, <<>>)],
              [key |-> <<"a", "r", "g", "u", "m", "e", "n", "t", "s">>,
               value |-> JValue("object", <<>>, 0,
                                << [key |-> <<"a">>,
                                    value |-> JValue("number", <<>>, 1, <<>>)] >>)] >>)

\* run() has passed `tool_call = self._parse_tool_call(response_text)`
ParserWasCalled == mcp_client /\ apc \in {"call", "returned", "raised"}

\* C15: for the generator text {"tool":"x","arguments":{"a":1}} followed by
\* free text the parser returns the full request, tool x with arguments
\* {a: 1}: the brace count reaches the object's true closing brace.
C15_NestedArgumentsBeforeTrailingText ==
    (ParserWasCalled /\
     response_text = "{\"tool\":\"x\",\"arguments\":{\"a\":1}} trailing text") =>
        tool_call = ToolRequest(NestedRequest)

\* C16: the parser returns a request or None for every generator text and
\* never raises, so run() never ends with the decoder's exception; a plain
\* sentence without a JSON object gives None.
C16_ParserIsTotal ==
    /\ tool_call.kind \in {"none", "request"}
    /\ run_result # RunRaised(<<"JSONDecodeError">>)
    /\ (ParserWasCalled /\ response_text = "It is sunny in Seoul.") =>
           tool_call = NoRequest /\ run_result = RunReturned(<<response_text>>)

\* run() returned the malformed text {"tool":"x",} as it is: the decoder
\* raised in both passes of the parser and the parser returned None
C16_Witness ==
    /\ ParserWasCalled
    /\ apc = "returned"
    /\ response_text = "{\"tool\":\"x\",}"
    /\ tool_call = NoRequest
    /\ run_result = RunReturned(<<response_text>>)

\* C17: every request the parser returns, and so every request run() hands
\* to call_tool, names its tool with a non-empty string.
C17_ToolNameIsNonEmpty ==
    tool_call.kind = "request" =>
        LET tool_name == Get(tool_call.value, <<"t", "o", "o", "l">>)
        IN  tool_name.type = "string" /\ tool_name.str # <<>>

\* C18: the top-level run of either variant never raises to its caller;
\* whatever fails below it, it returns a string.
C18_HandleNeverRaises ==
    /\ hpc # "raised"
    /\ final_result.kind # "raised"

\* the text an executor yields for an exception with message e
ErrorIn(phase, e) == <<"Error in ", phase, ": ", e>>

\* C19: an exception raised inside the run of the Tool, Research or General
\* handler, in its initialization or in its run, ends at the executor, which
\* yields "Error in <phase>: <message>" and raises nothing.
C19_ExecutorErrorsBecomeText ==
    /\ ~escaped
    /\ (route = "tool" /\ exc["tool"] # "") =>
           outputs = <<ErrorIn("tool execution", exc["tool"])>>
    /\ (route = "research" /\ exc["research"] # "") =>
           outputs = <<ErrorIn("research", exc["research"])>>
    /\ (route = "general" /\ exc["general"] # "") =>
           outputs = <<ErrorIn("general conversation", exc["general"])>>

\* tool_node has ended after the run of the Tool handler raised
C19_Witness ==
    /\ route = "tool"
    /\ tool_br = "done"
    /\ exc["tool"] = "Service unavailable"
    /\ outputs = <<ErrorIn("tool execution", "Service unavailable")>>

\* C20: router_node never raises, whatever fails while it routes, the lazy
\* initialization of the agents at its start included.
C20_RouterNeverRaises == rpc # "raised"

\* the generator has answered this run of the agent_framework Tool handler
GeneratorAnswered ==
    variant = "agent_framework" /\ apc \in {"call", "returned", "raised"} /\
    response_text # "None"

\* str(tool_result) for what call_tool can return
ToolResultTexts == {"result", "None"}

RetryKeywords == {"U+B0A0U+C528", "U+AE30U+C628", "U+C628U+B3C4", "weather", "temperature"}

\* a run of the foundry_agent Tool handler on a weather question has ended
\* after its session was opened
WeatherRunEnded ==
    /\ variant = "foundry_agent"
    /\ mcp_client
    /\ apc \in {"returned", "raised"}
    /\ handler_inits.last = "ok"
    /\ \E k \in RetryKeywords : Contains(Lower(Chars(user_query)), Chars(k))

\* C22: a run of the foundry_agent Tool handler on a weather question asks
\* the generator, sends at most one corrective prompt when the answer holds
\* no tool call, and returns text: the original answer if the second one
\* holds no tool call either.
C22_SingleRetryThenOriginalAnswer ==
    WeatherRunEnded => run_result.kind = "returned" /\ llm_calls \in 1..2

\* C23: a Tool handler with a tool backend calls neither the generator nor a
\* tool before an initialize() of its session has succeeded.  A run of
\* foundry_agent opens a session first and returns its fixed text when that
\* fails; a run of agent_framework whose initialize() has not succeeded does
\* not reach the generator.
C23_SessionBeforeGeneratorAndTool ==
    mcp_client =>
        /\ (llm_calls > 0 \/ tool_calls # <<>> \/ calls > 0 \/ pc # "idle") =>
               handler_inits.succeeded
        /\ (variant = "foundry_agent" /\ apc \in {"returned", "raised"}) =>
               /\ handler_inits.last # "none"
               /\ handler_inits.last = "failed" =>
                      run_result = RunReturned(<<NoConnection>>) /\ llm_calls = 0
        /\ (variant = "agent_framework" /\ ~handler_inits.succeeded) =>
               /\ ~agent
               /\ apc \in {"idle", "raised"}
               /\ apc = "raised" => run_result = RunRaised(<<"Agent not initialized">>)

\* a run of foundry_agent has returned the fixed text after its initialize()
\* failed, the generator not having been called
C23_Witness ==
    /\ variant = "foundry_agent"
    /\ mcp_client
    /\ apc = "returned"
    /\ handler_inits.last = "failed"
    /\ run_result = RunReturned(<<NoConnection>>)
    /\ llm_calls = 0

\* C24: when the search found documents, the text the Research handler
\* returns holds the title of every one of them, whatever the generator
\* wrote: it is the generator's text followed by a footer listing them all.
C24_EverySourceTitleInResponse ==
    (spc = "returned" /\ search_results # <<>>) =>
        /\ \A i \in 1..Len(search_results) :
               Contains(research_run.text, Chars(search_results[i].title))
        /\ SubSeq(research_run.text, 1, Len(Chars(generated))) = Chars(generated)
        /\ Len(research_run.text) > Len(Chars(generated))

\* a run over two documents with different titles has returned although the
\* generator's text names no source
C24_Witness ==
    /\ spc = "returned"
    /\ Len(search_results) = 2
    /\ search_results[1].title = "MCP Overview"
    /\ search_results[2].title = "Azure AI Search"
    /\ generated = "I do not know."
    /\ Contains(research_run.text, Chars("Azure AI Search"))

\* C25: when the search found nothing, the prompt given to the generator
\* asks for an answer from general knowledge and says that the knowledge
\* base held nothing relevant, and the run returns the generator's text as
\* it is, without a footer.
C25_EmptyRetrievalAsksGeneralKnowledge ==
    (search_client /\ spc \in {"generate", "returned"} /\ search_results = <<>>) =>
        /\ Contains(enhanced_message, Chars("general knowledge"))
        /\ Contains(enhanced_message,
                    Chars("No relevant information found in knowledge base"))
        /\ Contains(enhanced_message, Chars("not from the knowledge base"))
        /\ Contains(enhanced_message, Chars(query))
        /\ spc = "returned" => research_run = ResearchReturned(Chars(generated))

\* a run whose search found nothing has returned the generator's text
C25_Witness ==
    /\ search_client
    /\ spc = "returned"
    /\ search_results = <<>>
    /\ generated = "I do not know."
    /\ research_run = ResearchReturned(Chars("I do not know."))

\* what one message has set going: the executor the router chose and no
\* other, the two branches under the orchestrator only
OneLevelOfFanOut ==
    /\ orch # "idle" => rpc = "done" /\ route = "orchestrator"
    /\ general_br # "idle" => rpc = "done" /\ route = "general"
    /\ tool_br # "idle" =>
           rpc = "done" /\ (route = "tool" \/ (route = "orchestrator" /\ orch # "idle"))
    /\ research_br # "idle" =>
           rpc = "done" /\ (route = "research" \/ (route = "orchestrator" /\ orch # "idle"))
    /\ genCalls <= 1
    /\ Len(finished) <= 2
    /\ orch = "done" => finished \in {<<"tool", "research">>, <<"research", "tool">>}

\* within one message nothing runs a second time: the router, the
\* orchestrator and the branches only move on, and start again only after
\* the top-level run has ended
NothingRunsTwice ==
    /\ (rpc \in {"done", "raised"} /\ rpc' # rpc) => (rpc' = "idle" /\ hpc # "pending")
    /\ (rpc # "idle" /\ msg' # msg) => hpc # "pending"
    /\ (orch = "gather" /\ orch' # orch) => orch' = "done"
    /\ (orch = "done" /\ orch' # orch) => (orch' = "idle" /\ hpc # "pending")
    /\ (tool_br = "done" /\ tool_br' # tool_br) => (tool_br' = "idle" /\ hpc # "pending")
    /\ (research_br = "done" /\ research_br' # research_br) =>
           (research_br' = "idle" /\ hpc # "pending")
    /\ (general_br = "done" /\ general_br' # general_br) =>
           (general_br' = "idle" /\ hpc # "pending")

\* C26: one message is routed once and fans out at most once: the router
\* runs once, the orchestrator at most once with exactly its two branches,
\* Tool and Research, and nothing sends the message back to the router or
\* to another orchestrator.
C26_OneRoutingOneFanOut == []OneLevelOfFanOut /\ [][NothingRunsTwice]_vars

\* the top-level run has returned after the orchestrator joined its two
\* branches, research having finished first
C26_Witness ==
    /\ hpc = "returned"
    /\ orch = "done"
    /\ finished = <<"research", "tool">>
    /\ tool_br = "done" /\ research_br = "done" /\ general_br = "idle"

\* C27: over any interleaving of the requests handled before shutdown,
\* initialize() is executed at most one time per handler instance.
C27_InitializeAtMostOnce ==
    \A h \in SharedHandlers : initialize_runs[h] <= 1

\* the answers that tell an invalid session: HTTP 400, 401, 403 and an error
\* object whose message holds "session" or whose code is -32000 or -32001
SessionInvalidAnswers ==
    {"http400", "http401", "http403", "session_message", "session_code"}

\* initialize() was awaited since the tools/call request sent last
ReinitializedSinceLastCall ==
    \E i \in 1..Len(window) : window[i].method = "initialize"

\* C28: the first attempt of a call never reinitializes the session, and a
\* reinitialization is performed only before an attempt that follows a
\* session-invalid failure: a retry after a timeout or a connection error
\* reuses the session.
C28_ReinitializeOnlyAfterSessionInvalid ==
    /\ (pc # "idle" /\ attempt = 0) => inits = 0
    /\ (pc = "post" /\ ReinitializedSinceLastCall) =>
           /\ window[1].method = "tools/call"
           /\ window[1].resp \in SessionInvalidAnswers

\* this step is an initialize() awaited at the head of a retry that
\* returned False
ReinitializeFailed ==
    /\ pc = "reinit" /\ pc' = "post"
    /\ window'[Len(window')].resp # "ok"

\* C29: a reinitialization inside call_tool that fails leaves the session
\* as it was: the client holds the session id it held before that
\* initialize(), which the next attempt sends, and the same tools list.
C29_FailedReinitializeKeepsSession ==
    [][ReinitializeFailed =>
           /\ session_id' = session_id
           /\ available_tools' = available_tools]_vars

\* call_tool is inside its retry loop
InLoop == pc \in {"reinit", "post"}

\* the counts of one invocation: no more tools/call requests than
\* max_retries, and no reinitialization beyond the one before each retry
WithinRetryBudget ==
    /\ calls <= max_retries
    /\ inits = 0 \/ inits + 1 <= max_retries

\* C30: whatever mix of answers the transport gives, one call_tool
\* invocation sends at most max_retries tools/call requests, reinitializes
\* the session at most max_retries - 1 times, and ends by returning a value
\* or by raising.
C30_BoundedAndTerminates ==
    /\ []WithinRetryBudget
    /\ InLoop ~> Ended

\* an invocation with the default max_retries has used the whole budget on a
\* mix of failures: three requests, two reinitializations, then the raise
C30_Witness ==
    /\ pc = "raised"
    /\ max_retries = DefaultMaxRetries
    /\ calls = max_retries
    /\ inits = max_retries - 1
    /\ {"timeout", "http401", "session_code"} \subseteq answers

-----------------------------------------------------------------------------
(* Properties of the session, the router, the research handler and the
   clean-up. *)

\* the previous tools/call request carried a session id: the client held one
\* when the requests after it were sent
HeldSession ==
    /\ window # <<>>
    /\ window[1].method = "tools/call"
    /\ window[1].sid # 0

\* C31: once the client holds a session id, every request it sends carries
\* a session id in its header, the notification and the tools/list request
\* of a reinitialization included; only the initialize request goes without.
C31_SessionHeaderOnEveryRequest ==
    HeldSession =>
        \A i \in 2..Len(window) :
            window[i].method # "initialize" => window[i].sid # 0

\* a closed client does nothing more: it sends no request and stays as
\* close() left it
ClosedIsTerminal ==
    closed => UNCHANGED <<pc, calls, inits, window, session_id, available_tools>>

\* C32: once close() has completed the client holds no session id, and it
\* sends no further initialize request and no further tools/call request.
C32_ClosedIsTerminal ==
    /\ [](closed => session_id = 0)
    /\ [][ClosedIsTerminal]_vars

\* the message being routed holds a tool keyword and a research keyword
\* but no connector phrase
MixedNoConnector ==
    msg # "" /\ has_tool(msg) /\ has_research(msg) /\ ~has_connector(msg)

\* C33: a message with a tool keyword and a research keyword but no
\* connector phrase is never sent on by the rule stage, whatever its word
\* count: wherever it is sent, it is sent after exactly one call of
\* router_agent.run and to the target of the label that call returned; a run
\* that has a router agent makes that call.
C33_MixedMessageAsksGenerator ==
    MixedNoConnector =>
        /\ genCalls <= 1
        /\ route # "none" =>
              /\ genCalls = 1
              /\ genResult.kind = "text"
              /\ route = IntentTarget(Intent(genResult.text))
        /\ (rpc = "done" /\ router_agent) => genCalls = 1

\* a mixed message of four words was routed by the label
C33_Witness ==
    /\ rpc = "done"
    /\ msg = "Explain the weather tool"
    /\ WordCount(Chars(msg)) < WordThreshold
    /\ genCalls = 1
    /\ genResult = [kind |-> "text", text |-> " RESEARCH\n"]
    /\ route = "research"

\* the outputs the workflow run has emitted: the router's and the executors'
Emitted == (IF routerOutput = <<>> THEN 0 ELSE 1) + Len(outputs)

\* the executors that have been entered in this run
Entered ==
    {n \in {"tool", "research", "general"} :
        route = n /\ (CASE n = "tool" -> tool_br # "idle"
                        [] n = "research" -> research_br # "idle"
                        [] n = "general" -> general_br # "idle")}
    \cup (IF orch # "idle" THEN {"orchestrator"} ELSE {})

\* the router's error and a dispatch exclude each other, one executor at
\* most is entered, and a run that is over has emitted one output
OneOutputPerRun ==
    /\ routerOutput # <<>> => (route = "none" /\ outputs = <<>>)
    /\ Cardinality(Entered) <= 1
    /\ Emitted <= 1
    /\ hpc # "pending" => Emitted = 1

\* C34: every workflow run over one message ends with exactly one output,
\* the router's routing error or the output of exactly one of the four
\* executors; the router never both sends the message on and emits an error,
\* and never sends it to two targets.
C34_ExactlyOneOutput ==
    variant = "agent_framework" => OneOutputPerRun

\* the five globals that _initialize_agents assigns
AgentGlobals ==
    <<agent_client, router_agent, general_agent, tool_agent_instance,
      research_agent_instance>>

\* C35: after any sequence of calls of _initialize_agents, those that fail
\* part-way included, agent_client is set only if router_agent and
\* general_agent are set, and a call made when agent_client is set changes
\* none of the five globals.
C35_AgentGlobalsConsistent ==
    /\ [](agent_client => (router_agent /\ general_agent))
    /\ [][agent_client => UNCHANGED AgentGlobals]_vars

\* the index at which sub is first found in s, 0 if it is not
IndexOf(s, sub) ==
    LET at == {p \in 1..Len(s) : OccursAt(s, sub, p)}
    IN  IF at = {} THEN 0 ELSE CHOOSE p \in at : \A q \in at : p <= q

\* the heading of the i-th source in the augmented prompt and in the footer
PromptLabel(i, title) ==
    Chars("[Source ") \o NatChars(i) \o Join(<<"] ", title, "\n">>)
FooterLabel(i, title) ==
    Chars("**[") \o NatChars(i) \o Join(<<"]** ", title, "\n">>)

\* text holds the headings of the results 1..N, each with its own title, in
\* that order, and no heading of a number beyond N
NumberedInOrder(text, results, Label(_, _), Mark(_)) ==
    /\ \A i \in 1..Len(results) : IndexOf(text, Label(i, results[i].title)) > 0
    /\ \A i \in 1..(Len(results) - 1) :
           IndexOf(text, Label(i, results[i].title))
               < IndexOf(text, Label(i + 1, results[i + 1].title))
    /\ \A j \in 0..(TopK + 1) : j \notin 1..Len(results) => IndexOf(text, Mark(j)) = 0

PromptMark(j) == Chars("[Source ") \o NatChars(j) \o <<"]">>
FooterMark(j) == Chars("**[") \o NatChars(j) \o <<"]", "*", "*">>

\* C36: the i-th result of the search is headed [Source i] in the prompt
\* given to the generator and [i] in the citation footer, for i from 1 to N
\* with N at most 5, in the order of the search and with no result left out
\* or listed twice.
C36_OneNumberingInBackendOrder ==
    /\ Len(search_results) <= TopK
    /\ (spc \in {"generate", "returned"} /\ search_results # <<>>) =>
           NumberedInOrder(enhanced_message, search_results, PromptLabel, PromptMark)
    /\ (spc = "returned" /\ search_results # <<>>) =>
           NumberedInOrder(research_run.text, search_results, FooterLabel, FooterMark)

\* a run over two documents with different titles has returned
C36_Witness ==
    /\ spc = "returned"
    /\ Len(search_results) = 2
    /\ search_results[1].title = "Azure AI Search"
    /\ search_results[2].title = "Untitled"
    /\ IndexOf(research_run.text, FooterLabel(2, "Untitled")) > 0
    /\ IndexOf(enhanced_message, PromptLabel(2, "Untitled")) > 0

\* C37: a search that raises is not reported: the run goes on as after an
\* empty result, gives the generator the general-knowledge prompt, and
\* returns the generator's text without a citation footer; a run that
\* raises does so after that prompt was given to the generator.
C37_SearchFailureIsEmptyResult ==
    search_outcome = "raised" =>
        /\ search_results = <<>>
        /\ spc \in {"generate", "returned", "raised"}
        /\ Contains(enhanced_message, Chars("general knowledge"))
        /\ Contains(enhanced_message,
                    Chars("No relevant information found in knowledge base"))
        /\ Contains(enhanced_message, Chars(query))
        /\ spc = "returned" => research_run = ResearchReturned(Chars(generated))
        /\ spc = "raised" => generated = "None"

\* a run whose search raised has returned the generator's text
C37_Witness ==
    /\ search_outcome = "raised"
    /\ spc = "returned"
    /\ generated = "I do not know."
    /\ research_run.text = Chars("I do not know.")

====
